---- MODULE Spec2Model ----
(***************************************************************************)
(* The xPU client of src/next/executor.c: one XpuConnection, its receiver  *)
(* thread (__xpuConnectSessionWorker), the consumer thread that opens the  *)
(* session, dispatches chunks (__fetchNextXpuCommand), drains responses    *)
(* (__waitAndFetchNextXpuCommand) and tears the connection down            *)
(* (xpuClientCloseSession), and the xPU service at the other end of the    *)
(* socket.  Every region the code runs between pthreadMutexLock and        *)
(* pthreadMutexUnlock is one atomic action.                                *)
(*                                                                         *)
(* The boolean expression handlers of src/next/xpu_common.c (AND, OR, NOT, *)
(* NullTest, BooleanTest) are a second specification, KernSpec: one        *)
(* expression of the catalog is evaluated into a result slot.              *)
(* CorruptedSpec runs the fixed-arity handlers on expressions of any       *)
(* opcode and arity.  TypeSpec applies datum_ref, datum_store and          *)
(* datum_hash of the simple base types (src/next/xpu_basetype.h) to a      *)
(* value.  SessSpec builds the OpenSession command of a plan and its       *)
(* parameters (pgstromBuildSessionInfo) and evaluates a Param expression   *)
(* against it.  ScanSpec walks the rows of the fetched responses           *)
(* (pgstromScanNextTuple), and IovSpec sends commands with writev(2)       *)
(* (xpuClientSendCommandIOV).                                              *)
(***************************************************************************)
EXTENDS Integers, Sequences, FiniteSets, TLC

\* ---------------------------------------------------------------- bounds
MaxChunks == 3          \* the producer yields 0..MaxChunks input chunks
MaxAsync  == 2          \* pg_strom.max_async_tasks ranges over 1..MaxAsync
MaxArgs   == 3          \* AND / OR have 1..MaxArgs children
MaxParams == 2          \* ParamListInfo->numParams ranges over 0..MaxParams
MaxExecParams == 2      \* PARAM_EXEC ids are 0..MaxExecParams-1
MaxUsedParams == 2      \* a plan uses 0..MaxUsedParams parameters
MaxResponses == 2       \* a scan fetches 0..MaxResponses responses
MaxKds == 2             \* a response carries 0..MaxKds chunks
MaxRows == 2            \* a chunk holds 0..MaxRows rows
MaxCmds == 2            \* 1..MaxCmds commands are sent
MaxSegs == 2            \* a command has 1..MaxSegs segments
MaxSegLen == 3          \* a segment has 1..MaxSegLen bytes

\* ------------------------------------------------------------- constants
ERRCODE_STROM_SUCCESS == 0
ErrCodeOf(id) == 42 + id    \* the errcode the service reports for task id
SessionId == 0          \* command id of the OpenSession command
SessionFixedSz == 3     \* cells of kern_session_info before poffset[]
XpuCommandHeaderSz == 3 \* offsetof(XpuCommand, u.session), in cells
XpuCode == 30           \* the cell appended for kexp_scan_quals
EncodeInfo == 31        \* the cell appended by __build_session_encode
ChunkIds == 1..MaxChunks
FinalId == MaxChunks + 1
CmdIds == 0..FinalId

\* a response message; lineno stands for the rest of kern_errorbuf
XpuResp(id, tag, code) == [id |-> id, tag |-> tag, errcode |-> code]
NULL == [id |-> 0, tag |-> "NULL", errcode |-> 0]
\* kern_errorbuf: errcode plus the provenance fields (here: the failed task)
ErrorBuf(code, id) == [errcode |-> code, lineno |-> id]
NotRaised == [kind |-> "none", errcode |-> 0]
\* no test of the consumer is pending
NoCheck == [attached |-> -1, errcode |-> 0, terminated |-> 0]

VARIABLES
    \* ---- pgstromTaskState (consumer thread)
    pc,                 \* position of the consumer thread
    xcmd,               \* id of the command being sent
    try_final_callback, \* argument of __waitAndFetchNextXpuCommand
    scan_done, final_done, cb_final_chunk, curr_resp,
    nchunks, produced,  \* the producer: chunks it will yield / has yielded
    max_async,          \* pgstrom_max_async_tasks
    raised,             \* the error thrown by ereport/elog(ERROR), if any
    close_by,           \* who runs xpuClientCloseSession
    \* ---- XpuConnection
    sockfd, terminated, num_running_cmds, num_ready_cmds,
    ready_cmds_list, active_cmds_list, errorbuf,
    in_registry,        \* conn is linked in xpu_connections_list
    conn_freed,         \* free(conn) was called
    mutex,              \* conn->mutex: who holds it
    \* ---- PostgreSQL resource owners
    released,           \* resource owners whose release callbacks have run
    \* ---- process / OS
    fd_open,            \* the socket descriptor is open in this process
    sig_pending,        \* SIGPOLL was delivered to the thread blocked in poll(2)
    latch,              \* MyLatch is set
    rpc,                \* position of the receiver thread
    \* ---- xPU service and the socket
    svc_pending,        \* commands received by the service, not answered
    sock,               \* responses written by the service, not yet received
    peer_closed,        \* the service closed its end
    \* ---- history (observation only)
    h_attached,         \* responses appended to ready_cmds_list, in order
    h_delivered,        \* responses picked up by the dispatcher, in order
    h_freed,            \* per response id: number of free() calls
    h_sent_after_err,   \* commands written while errorbuf held an error
    h_use_after_free,   \* the receiver thread touched conn after free(conn)
    h_unlocked,         \* shared fields of conn that were read or written
                        \* without the mutex while the receiver thread ran
    h_checked,          \* what the receiver thread had done when the
                        \* consumer made the tests it now waits on
    \* ---- device-side expression evaluation (xpu_common.c)
    kexp,               \* the kern_expression node being evaluated
    result,             \* the xpu_bool_t slot the handler writes to
    retval,             \* what the handler returned, once it has run
    nevals,             \* children evaluated by EXEC_KERN_EXPRESSION
    kerror,             \* the error the evaluation left in kcxt
    handler,            \* the handler that was entered for kexp
    \* ---- fixed-width type primitives (xpu_basetype.h)
    xtype,              \* NAME of the template instance
    addr,               \* the bytes at addr, or NULL
    datum,              \* the xpu_NAME_t filled by datum_ref
    buffer,             \* the bytes at buffer, before and after datum_store
    nbytes,             \* what datum_store returned
    hash,               \* *p_hash after datum_hash
    \* ---- session builder (pgstromBuildSessionInfo)
    param_info,         \* econtext->ecxt_param_list_info
    used_params,        \* pp_info->used_params
    kexp_scan_quals,    \* pp_info->kexp_scan_quals is set
    session_xcmd,       \* the XpuCommand returned
    build_status,       \* how the call ended
    stray_writes,       \* indexes of poffset[] written outside the table
    param_ref,          \* the used parameter a Param expression refers to
    param_datum,        \* the result slot of pgfn_ParamExpr
    \* ---- result demultiplexer (pgstromExecScanAccess)
    responses,          \* what __fetchNextXpuCommand returns, in order
    nfetched,           \* how many of them it has returned
    resp,               \* pts->curr_resp
    curr_kds,           \* pts->curr_kds: the chunk of resp it points at
    curr_chunk,         \* pts->curr_chunk
    curr_index,         \* pts->curr_index
    scan_pc,            \* position inside pgstromExecScanAccess
    h_tuples,           \* the rows returned, in order
    h_put,              \* the responses given to xpuClientPutResponse
    \* ---- xpuClientSendCommandIOV and the bytes on the socket
    cmds,               \* the segment arrays of the commands to send
    sending,            \* the command being sent (index into cmds)
    iov,                \* iov[0..iovcnt-1] as the loop has left it
    wire,               \* the bytes writev(2) has written, in order
    counted,            \* conn->num_running_cmds
    iov_pc              \* position inside xpuClientSendCommandIOV

pts_vars  == <<pc, xcmd, try_final_callback, scan_done, final_done,
               cb_final_chunk, curr_resp, nchunks, produced, max_async,
               raised, close_by>>
conn_vars == <<sockfd, terminated, num_running_cmds, num_ready_cmds,
               ready_cmds_list, active_cmds_list, errorbuf, in_registry,
               conn_freed>>
os_vars   == <<fd_open, sig_pending, latch, rpc>>
svc_vars  == <<svc_pending, sock, peer_closed>>
hist_vars == <<h_attached, h_delivered, h_freed, h_sent_after_err,
               h_use_after_free>>
scope_vars == <<released>>
lock_vars == <<mutex, h_unlocked>>
wake_vars == <<h_checked>>
client_vars == <<pts_vars, conn_vars, scope_vars, lock_vars, wake_vars,
                 os_vars, svc_vars, hist_vars>>
kern_vars == <<kexp, result, retval, nevals, kerror, handler>>
\* what no step of the client touches
type_vars == <<xtype, addr, datum, buffer, nbytes, hash>>
sess_vars == <<param_info, used_params, kexp_scan_quals, session_xcmd,
               build_status, stray_writes, param_ref, param_datum>>
scan_vars == <<responses, nfetched, resp, curr_kds, curr_chunk, curr_index,
               scan_pc, h_tuples, h_put>>
iov_vars == <<cmds, sending, iov, wire, counted, iov_pc>>
other_vars == <<kern_vars, type_vars, sess_vars, scan_vars, iov_vars>>
vars == <<client_vars, other_vars>>

\* the client before __xpuClientOpenSession is called
ClientInit ==
    /\ pc = "start" /\ xcmd = 0 /\ try_final_callback = FALSE
    /\ scan_done = FALSE /\ final_done = FALSE
    /\ cb_final_chunk \in BOOLEAN
    /\ curr_resp = NULL
    /\ nchunks \in 0..MaxChunks /\ produced = 0
    /\ max_async \in 1..MaxAsync
    /\ raised = NotRaised /\ close_by = "none"
    /\ sockfd = -1 /\ terminated = 0
    /\ num_running_cmds = 0 /\ num_ready_cmds = 0
    /\ ready_cmds_list = <<>> /\ active_cmds_list = <<>>
    /\ errorbuf = ErrorBuf(ERRCODE_STROM_SUCCESS, 0)
    /\ in_registry = FALSE /\ conn_freed = FALSE
    /\ mutex = "free" /\ h_unlocked = {}
    /\ h_checked = NoCheck
    /\ released = {}
    /\ fd_open = FALSE /\ sig_pending = FALSE /\ latch = FALSE
    /\ rpc = "none"
    /\ svc_pending = {} /\ sock = <<>> /\ peer_closed = FALSE
    /\ h_attached = <<>> /\ h_delivered = <<>>
    /\ h_freed = [i \in CmdIds |-> 0]
    /\ h_sent_after_err = 0
    /\ h_use_after_free = FALSE

\* no expression is being evaluated
KernIdle ==
    /\ kexp = [opcode |-> "Invalid", args |-> <<>>]
    /\ result = [isnull |-> FALSE, value |-> FALSE]
    /\ retval = "pending"
    /\ nevals = 0
    /\ kerror = "none" /\ handler = "none"

\* no type primitive is being called
Unset == [isnull |-> TRUE, value |-> 0, ops |-> "unset"]
NoHash == [kind |-> "unset"]
NullAddr == <<>>
TypeIdle ==
    /\ xtype = "bool" /\ addr = NullAddr /\ datum = Unset
    /\ buffer = <<>> /\ nbytes = -1 /\ hash = NoHash

\* no session is being built
NoParamList == [present |-> FALSE, numParams |-> 0]
NoCommand == [magic |-> "none", tag |-> "none", length |-> 0,
              payload |-> <<>>]
SessIdle ==
    /\ param_info = NoParamList /\ used_params = <<>>
    /\ kexp_scan_quals = FALSE
    /\ session_xcmd = NoCommand /\ build_status = "idle"
    /\ stray_writes = {}
    /\ param_ref = 0 /\ param_datum = Unset

\* no scan is reading results
NoResults == [id |-> 0, tag |-> "NULL", chunks |-> <<>>]
ScanIdle ==
    /\ responses = <<>> /\ nfetched = 0 /\ resp = NoResults
    /\ curr_kds = 0 /\ curr_chunk = 0 /\ curr_index = 0
    /\ scan_pc = "none" /\ h_tuples = <<>> /\ h_put = <<>>
\* no command is being written
IovIdle ==
    /\ cmds = <<>> /\ sending = 0 /\ iov = <<>> /\ wire = <<>>
    /\ counted = 0 /\ iov_pc = "none"

Init == ClientInit /\ KernIdle /\ TypeIdle /\ SessIdle /\ ScanIdle /\ IovIdle

Free(f, ids) == [i \in CmdIds |-> IF i \in ids THEN f[i] + 1 ELSE f[i]]
Ids(q) == {q[i].id : i \in 1..Len(q)}
Raise(kind, code) == [kind |-> kind, errcode |-> code]

\* =====================================================================
\* xPU service
\* =====================================================================
\* The service answers a command it received with one response.
ServiceRespond ==
    /\ ~peer_closed
    /\ \E id \in svc_pending :
       \E r \in {XpuResp(id, "Success", 0), XpuResp(id, "CPUFallback", 0)}
                \cup {XpuResp(id, "Error", ErrCodeOf(id))} :
          /\ sock' = Append(sock, r)
          /\ svc_pending' = svc_pending \ {id}
    /\ UNCHANGED <<peer_closed, pts_vars, conn_vars, os_vars, hist_vars>>
    /\ UNCHANGED <<scope_vars, wake_vars, lock_vars, other_vars>>

\* The service closes its end of the socket.
ServiceClose ==
    /\ rpc # "none" /\ ~peer_closed
    /\ peer_closed' = TRUE
    /\ UNCHANGED <<svc_pending, sock, pts_vars, conn_vars, os_vars, hist_vars>>
    /\ UNCHANGED <<scope_vars, wake_vars, lock_vars, other_vars>>

\* =====================================================================
\* receiver thread
\* =====================================================================
\* the receiver thread has been started and has not returned
ReceiverRuns == rpc \in {"top", "prepoll", "inpoll", "recv"}
\* pthreadMutexUnlock(&conn->mutex) by its holder
pthreadMutexUnlockSkipped(holder) == holder
pthreadMutexUnlock(holder) == "free"
\* shared fields touched outside the mutex: it matters while the thread runs
Unlocked(fields) == IF ReceiverRuns THEN fields ELSE {}

\* errorbuf after an Error response: the first error wins
MergeErrorOverwrite(buf, err) == err
MergeError(buf, err) ==
    IF buf.errcode = ERRCODE_STROM_SUCCESS THEN err ELSE buf

\* SetLatch(MyLatch)
SetLatchLost(l) == l
SetLatch(l) == TRUE

\* dlist_push_tail(&conn->ready_cmds_list, &xcmd->chain)
dlist_push_head(list, node) == <<node>> \o list
dlist_push_tail(list, node) == Append(list, node)

\* __xpuConnectAttachCommand, the region under conn->mutex
__xpuConnectAttachCommand(r) ==
    /\ mutex = "free"                       \* pthreadMutexLock
    /\ num_running_cmds' = num_running_cmds - 1
    /\ IF r.tag = "Error"
       THEN /\ errorbuf' = MergeError(errorbuf, ErrorBuf(r.errcode, r.id))
            /\ h_freed' = Free(h_freed, {r.id})
            /\ UNCHANGED <<ready_cmds_list, num_ready_cmds, h_attached>>
       ELSE /\ ready_cmds_list' = dlist_push_tail(ready_cmds_list, r)
            /\ num_ready_cmds' = num_ready_cmds + 1
            /\ h_attached' = Append(h_attached, r)
            /\ UNCHANGED <<errorbuf, h_freed>>
    /\ latch' = SetLatch(latch)
    /\ mutex' = pthreadMutexUnlock("receiver")

\* the thread leaves its loop: conn->terminated = code; SetLatch
WorkerExitNoWake(code) ==
    /\ mutex = "free"
    /\ terminated' = code
    /\ latch' = latch
    /\ mutex' = pthreadMutexUnlock("receiver")
    /\ rpc' = "exited"
    /\ h_use_after_free' = (h_use_after_free \/ conn_freed)
WorkerExit(code) ==
    /\ mutex = "free"                       \* pthreadMutexLock
    /\ terminated' = code
    /\ latch' = TRUE
    /\ mutex' = pthreadMutexUnlock("receiver")
    /\ rpc' = "exited"
    /\ h_use_after_free' = (h_use_after_free \/ conn_freed)

\* for (;;) { sockfd = conn->sockfd; if (sockfd < 0) break;
WorkerLoopTop ==
    /\ rpc = "top"
    /\ IF sockfd < 0
       THEN /\ WorkerExit(-1)
            /\ UNCHANGED sig_pending
       ELSE /\ rpc' = "prepoll"
            /\ h_use_after_free' = (h_use_after_free \/ conn_freed)
            /\ UNCHANGED <<terminated, latch, sig_pending, mutex>>
    /\ UNCHANGED <<pts_vars, sockfd, num_running_cmds, num_ready_cmds,
                   ready_cmds_list, active_cmds_list, errorbuf, in_registry,
                   conn_freed, fd_open, svc_vars, h_attached, h_delivered,
                   h_freed, h_sent_after_err>>
    /\ UNCHANGED <<scope_vars, wake_vars, h_unlocked, other_vars>>

\* poll(&pfd, 1, -1) is entered: a closed descriptor answers POLLNVAL at once
WorkerPollEnter ==
    /\ rpc = "prepoll"
    /\ IF ~fd_open
       THEN WorkerExit(1)
       ELSE /\ rpc' = "inpoll"
            /\ UNCHANGED <<terminated, latch, mutex, h_use_after_free>>
    /\ UNCHANGED <<pts_vars, sockfd, num_running_cmds, num_ready_cmds,
                   ready_cmds_list, active_cmds_list, errorbuf, in_registry,
                   conn_freed, fd_open, sig_pending, svc_vars, h_attached,
                   h_delivered, h_freed, h_sent_after_err>>
    /\ UNCHANGED <<scope_vars, wake_vars, h_unlocked, other_vars>>

\* what poll(2) leaves untouched
PollFrame ==
    UNCHANGED <<pts_vars, scope_vars, wake_vars, h_unlocked, other_vars,
                sockfd,
                num_running_cmds,
                num_ready_cmds, ready_cmds_list, active_cmds_list, errorbuf,
                in_registry, conn_freed, fd_open, svc_vars, h_attached,
                h_delivered, h_freed, h_sent_after_err>>

\* poll(2) returns -1 with errno == EINTR: continue
PollInterrupted ==
    /\ rpc = "inpoll" /\ sig_pending
    /\ sig_pending' = FALSE
    /\ rpc' = "top"
    /\ UNCHANGED <<terminated, latch, mutex, h_use_after_free>>
    /\ PollFrame

\* poll(2) reports an event other than POLLIN (the peer hung up)
PollHangup ==
    /\ rpc = "inpoll" /\ fd_open /\ peer_closed
    /\ WorkerExit(1)
    /\ UNCHANGED sig_pending
    /\ PollFrame

\* poll(2) reports POLLIN
PollReadable ==
    /\ rpc = "inpoll" /\ fd_open /\ ~peer_closed /\ sock # <<>>
    /\ rpc' = "recv"
    /\ UNCHANGED <<terminated, latch, sig_pending, mutex,
                   h_use_after_free>>
    /\ PollFrame

\* the descriptor was closed while the thread was blocked in poll(2): the
\* system may or may not wake the thread (POLLNVAL)
PollInvalidated ==
    /\ rpc = "inpoll" /\ ~fd_open
    /\ WorkerExit(1)
    /\ UNCHANGED sig_pending
    /\ PollFrame

\* poll(2) returns -1 with another errno: break
PollFailed ==
    /\ rpc = "inpoll"
    /\ WorkerExit(-1)
    /\ UNCHANGED sig_pending
    /\ PollFrame

\* __xpuConnectReceiveCommands(conn->sockfd, conn, conn->devname)
__xpuConnectReceiveCommands ==
    /\ rpc = "recv"
    /\ \/ /\ sockfd >= 0 /\ fd_open /\ sock # <<>>
          /\ __xpuConnectAttachCommand(Head(sock))
          /\ sock' = Tail(sock)
          /\ rpc' = "top"
          /\ h_use_after_free' = (h_use_after_free \/ conn_freed)
          /\ UNCHANGED terminated
       \/ /\ WorkerExit(-1)                   \* receive or decode failed
          /\ UNCHANGED <<sock, num_running_cmds, num_ready_cmds,
                         ready_cmds_list, errorbuf, h_attached, h_freed>>
    /\ UNCHANGED <<pts_vars, sockfd, active_cmds_list, in_registry,
                   conn_freed, fd_open, sig_pending, svc_pending,
                   peer_closed, h_delivered, h_sent_after_err>>
    /\ UNCHANGED <<scope_vars, wake_vars, h_unlocked, other_vars>>

\* the steps the thread takes whenever it can
ReceiverProgress ==
    \/ WorkerLoopTop \/ WorkerPollEnter \/ PollInterrupted \/ PollHangup
    \/ PollReadable \/ __xpuConnectReceiveCommands

__xpuConnectSessionWorker ==
    ReceiverProgress \/ PollInvalidated \/ PollFailed

\* =====================================================================
\* consumer thread: sending
\* =====================================================================
\* __xpuClientOpenSession up to pthread_create: the connection is built,
\* registered and its receiver thread started
__xpuClientOpenSession ==
    /\ pc = "start"
    /\ sockfd' = 3 /\ fd_open' = TRUE
    /\ terminated' = 0
    /\ num_running_cmds' = 0 /\ num_ready_cmds' = 0
    /\ ready_cmds_list' = <<>> /\ active_cmds_list' = <<>>
    /\ in_registry' = TRUE
    /\ rpc' = "top"
    /\ xcmd' = SessionId
    /\ pc' = "hs_send"
    /\ UNCHANGED <<try_final_callback, scan_done, final_done, cb_final_chunk,
                   curr_resp, nchunks, produced, max_async, raised, close_by,
                   errorbuf, conn_freed, sig_pending, latch, svc_vars,
                   hist_vars>>
    /\ UNCHANGED <<scope_vars, wake_vars, lock_vars, other_vars>>

\* conn->num_running_cmds++
CountCommandLater(running) == running
CountCommand(running) == running + 1

\* xpuClientSendCommand(conn, session): conn->num_running_cmds++ under mutex
xpuClientSendCommand ==
    /\ pc = "hs_send"
    /\ mutex = "free"                       \* pthreadMutexLock
    /\ num_running_cmds' = CountCommand(num_running_cmds)
    /\ mutex' = pthreadMutexUnlock("consumer")
    /\ pc' = "write"
    /\ UNCHANGED <<xcmd, try_final_callback, scan_done, final_done,
                   cb_final_chunk, curr_resp, nchunks, produced, max_async,
                   raised, close_by, sockfd, terminated, num_ready_cmds,
                   ready_cmds_list, active_cmds_list, errorbuf, in_registry,
                   conn_freed, os_vars, svc_vars, hist_vars>>
    /\ UNCHANGED <<scope_vars, wake_vars, h_unlocked, other_vars>>

\* xpuClientSendCommandIOV: conn->num_running_cmds++ under mutex
xpuClientSendCommandIOV ==
    /\ pc = "send"
    /\ mutex = "free"                       \* pthreadMutexLock
    /\ num_running_cmds' = CountCommand(num_running_cmds)
    /\ mutex' = pthreadMutexUnlock("consumer")
    /\ pc' = "write"
    /\ UNCHANGED <<xcmd, try_final_callback, scan_done, final_done,
                   cb_final_chunk, curr_resp, nchunks, produced, max_async,
                   raised, close_by, sockfd, terminated, num_ready_cmds,
                   ready_cmds_list, active_cmds_list, errorbuf, in_registry,
                   conn_freed, os_vars, svc_vars, hist_vars>>
    /\ UNCHANGED <<scope_vars, wake_vars, h_unlocked, other_vars>>

\* where the sender continues once the command is written
AfterWrite(id) ==
    IF id = SessionId THEN "wf_top"         \* __waitAndFetch(pts, false)
    ELSE IF id = FinalId THEN "wf_wait"     \* CHECK_FOR_INTERRUPTS; WaitLatch
    ELSE "fetch"                            \* next iteration of the scan loop

\* the write(2)/writev(2) loop of xpuClientSendCommand[IOV]
WriteCommand ==
    /\ pc = "write"
    /\ \/ /\ svc_pending' = svc_pending \cup {xcmd}    \* all bytes written
          /\ pc' = AfterWrite(xcmd)
          /\ try_final_callback' = (xcmd # SessionId /\ try_final_callback)
          /\ h_sent_after_err' =
                IF errorbuf.errcode # ERRCODE_STROM_SUCCESS
                THEN h_sent_after_err + 1 ELSE h_sent_after_err
          /\ UNCHANGED raised
       \/ /\ raised' = Raise("elog", 0)     \* write failed, not EINTR
          /\ pc' = "raised"
          /\ UNCHANGED <<svc_pending, try_final_callback, h_sent_after_err>>
    /\ UNCHANGED <<xcmd, scan_done, final_done, cb_final_chunk, curr_resp,
                   nchunks, produced, max_async, close_by, conn_vars,
                   os_vars, sock, peer_closed, h_attached, h_delivered,
                   h_freed, h_use_after_free>>
    /\ UNCHANGED <<scope_vars, wake_vars, lock_vars, other_vars>>

\* =====================================================================
\* consumer thread: the dispatcher
\* =====================================================================
\* if (conn->errorbuf.errcode != ERRCODE_STROM_SUCCESS) ereport(ERROR, ...)
DeviceErrorNever(buf) == FALSE
DeviceError(buf) == buf.errcode # ERRCODE_STROM_SUCCESS

\* the admission test of __fetchNextXpuCommand
AdmissionOff(running, nready, ready, C) ==
    running + nready <= C /\ (ready = <<>> \/ running < C \div 2)
AdmissionReadyFirst(running, nready, ready, C) ==
    running + nready < C /\ ready = <<>>
AdmissionBelowHalf(running, nready, ready, C) ==
    running + nready < C /\ running < C \div 2
Admission(running, nready, ready, C) ==
    running + nready < C /\ (ready = <<>> \/ running < C \div 2)

\* __pickupNextXpuCommand: what it pops and what it leaves
PickupLast(ready) ==
    [xcmd |-> ready[Len(ready)], rest |-> SubSeq(ready, 1, Len(ready) - 1)]
PickupLinked(ready) == [xcmd |-> Head(ready), rest |-> ready]
PickupNext(ready) == [xcmd |-> Head(ready), rest |-> Tail(ready)]

__pickupNextXpuCommand ==
    LET p == PickupNext(ready_cmds_list) IN
    /\ ready_cmds_list' = p.rest
    /\ active_cmds_list' = Append(active_cmds_list, p.xcmd)
    /\ num_ready_cmds' = num_ready_cmds - 1
    /\ h_delivered' = Append(h_delivered, p.xcmd)

\* the test "wait for the running commands" of both fetch routines
RunningNever(running) == FALSE
RunningSeveral(running) == running > 1
Running(running) == running > 0

\* if (!pts->cb_final_chunk || pts->final_done) return NULL;
NoFinalChunkOnlyUnset(cb, done) == ~cb
NoFinalChunk(cb, done) == ~cb \/ done

\* what the receiver thread has done so far: responses attached, error
\* recorded, termination flag
Checked ==
    [attached |-> Len(h_attached), errcode |-> errorbuf.errcode,
     terminated |-> terminated]
\* one iteration of the loop of __waitAndFetchNextXpuCommand, from
\* ResetLatch to the pthreadMutexUnlock of the branch taken
__waitAndFetchNextXpuCommand ==
    /\ pc = "wf_top"
    /\ mutex = "free"                       \* pthreadMutexLock
    /\ latch' = FALSE
    /\ IF DeviceError(errorbuf)
       THEN /\ raised' = Raise("device", errorbuf.errcode)
            /\ pc' = "raised"
            /\ UNCHANGED <<ready_cmds_list, active_cmds_list, num_ready_cmds,
                           h_delivered>>
       ELSE IF ready_cmds_list # <<>>
       THEN /\ __pickupNextXpuCommand
            /\ pc' = IF try_final_callback THEN "fetched" ELSE "hs_resp"
            /\ UNCHANGED raised
       ELSE IF Running(num_running_cmds)
       THEN /\ pc' = "wf_wait"
            /\ UNCHANGED <<raised, ready_cmds_list, active_cmds_list,
                           num_ready_cmds, h_delivered>>
       ELSE /\ IF ~try_final_callback
               THEN \* return NULL: "Bug? OpenSession response is missing"
                    /\ raised' = Raise("elog", 0)
                    /\ pc' = "raised"
               ELSE /\ pc' = IF NoFinalChunk(cb_final_chunk, final_done)
                             THEN "eof" ELSE "wf_final"
                    /\ UNCHANGED raised
            /\ UNCHANGED <<ready_cmds_list, active_cmds_list, num_ready_cmds,
                           h_delivered>>
    /\ mutex' = pthreadMutexUnlock("consumer")
    \* ereport reads conn->errorbuf after pthreadMutexUnlock
    /\ h_unlocked' = IF DeviceError(errorbuf)
                     THEN h_unlocked \cup Unlocked({"errorbuf"})
                     ELSE h_unlocked
    \* return NULL: pgstromExecScanAccess stores it in pts->curr_resp
    /\ curr_resp' = IF pc' = "eof" THEN NULL ELSE curr_resp
    /\ UNCHANGED <<xcmd, try_final_callback, scan_done, final_done,
                   cb_final_chunk, nchunks, produced, max_async,
                   close_by, sockfd, terminated, num_running_cmds, errorbuf,
                   in_registry, conn_freed, fd_open, sig_pending, rpc,
                   svc_vars, h_attached, h_freed, h_sent_after_err,
                   h_use_after_free>>
    /\ h_checked' = IF pc' \in {"wf_wait", "wf_final", "latch_wait"}
                    THEN Checked ELSE h_checked
    /\ UNCHANGED <<scope_vars, other_vars>>

\* xcmd = pts->cb_final_chunk(pts, xcmd_iov, &xcmd_iovcnt)
FinalChunk ==
    /\ pc = "wf_final"
    /\ \/ /\ pc' = "eof"                    \* no finalization task
          /\ curr_resp' = NULL
          /\ UNCHANGED <<xcmd, final_done>>
       \/ /\ final_done' = TRUE
          /\ xcmd' = FinalId
          /\ pc' = "send"
          /\ UNCHANGED curr_resp
    /\ UNCHANGED <<try_final_callback, scan_done, cb_final_chunk,
                   nchunks, produced, max_async, raised, close_by, conn_vars,
                   os_vars, svc_vars, hist_vars>>
    /\ UNCHANGED <<scope_vars, wake_vars, lock_vars, other_vars>>

\* WaitLatch(MyLatch, WL_LATCH_SET | WL_TIMEOUT, 1000L) returns (the latch
\* was set or the timeout expired), or pg_usleep(20000L) returns
WaitLatch ==
    /\ pc \in {"wf_wait", "latch_wait", "usleep"}
    /\ pc' = IF pc = "wf_wait" THEN "wf_top" ELSE "fetch"
    /\ h_checked' = NoCheck
    /\ UNCHANGED <<xcmd, try_final_callback, scan_done, final_done,
                   cb_final_chunk, curr_resp, nchunks, produced, max_async,
                   raised, close_by, conn_vars, os_vars, svc_vars, hist_vars>>
    /\ UNCHANGED <<scope_vars, lock_vars, other_vars>>

\* CHECK_FOR_INTERRUPTS() finds a pending cancel request
Interrupted ==
    /\ pc \in {"wf_wait", "fetch"}
    /\ pc = "fetch" => ~scan_done
    /\ raised' = Raise("interrupt", 0)
    /\ pc' = "raised"
    /\ UNCHANGED <<xcmd, try_final_callback, scan_done, final_done,
                   cb_final_chunk, curr_resp, nchunks, produced, max_async,
                   close_by, conn_vars, os_vars, svc_vars, hist_vars>>
    /\ UNCHANGED <<scope_vars, wake_vars, lock_vars, other_vars>>

\* one iteration of the scan loop of __fetchNextXpuCommand, from the loop
\* test to the pthreadMutexUnlock of the branch taken
__fetchNextXpuCommand ==
    /\ pc = "fetch"
    /\ ~scan_done => mutex = "free"         \* pthreadMutexLock
    /\ IF scan_done
       THEN /\ pc' = "wf_top"
            /\ try_final_callback' = TRUE
            /\ UNCHANGED <<raised, latch, ready_cmds_list, active_cmds_list,
                           num_ready_cmds, h_delivered>>
       ELSE /\ UNCHANGED try_final_callback
            /\ IF DeviceError(errorbuf)
               THEN /\ raised' = Raise("device", errorbuf.errcode)
                    /\ pc' = "raised"
                    /\ UNCHANGED <<latch, ready_cmds_list, active_cmds_list,
                                   num_ready_cmds, h_delivered>>
               ELSE IF Admission(num_running_cmds, num_ready_cmds,
                                 ready_cmds_list, max_async)
               THEN /\ pc' = "next_chunk"
                    /\ UNCHANGED <<raised, latch, ready_cmds_list,
                                   active_cmds_list, num_ready_cmds,
                                   h_delivered>>
               ELSE IF ready_cmds_list # <<>>
               THEN /\ __pickupNextXpuCommand
                    /\ pc' = "fetched"
                    /\ UNCHANGED <<raised, latch>>
               ELSE IF Running(num_running_cmds)
               THEN /\ latch' = FALSE
                    /\ pc' = "latch_wait"
                    /\ UNCHANGED <<raised, ready_cmds_list, active_cmds_list,
                                   num_ready_cmds, h_delivered>>
               ELSE /\ pc' = "usleep"
                    /\ UNCHANGED <<raised, latch, ready_cmds_list,
                                   active_cmds_list, num_ready_cmds,
                                   h_delivered>>
    /\ mutex' = IF scan_done THEN mutex ELSE pthreadMutexUnlock("consumer")
    \* ereport reads conn->errorbuf after pthreadMutexUnlock
    /\ h_unlocked' = IF ~scan_done /\ DeviceError(errorbuf)
                     THEN h_unlocked \cup Unlocked({"errorbuf"})
                     ELSE h_unlocked
    /\ UNCHANGED <<xcmd, scan_done, final_done, cb_final_chunk, curr_resp,
                   nchunks, produced, max_async, close_by, sockfd,
                   terminated, num_running_cmds, errorbuf, in_registry,
                   conn_freed, fd_open, sig_pending, rpc, svc_vars,
                   h_attached, h_freed, h_sent_after_err, h_use_after_free>>
    /\ h_checked' = IF pc' \in {"wf_wait", "wf_final", "latch_wait"}
                    THEN Checked ELSE h_checked
    /\ UNCHANGED <<scope_vars, other_vars>>

\* xcmd = pts->cb_next_chunk(pts, xcmd_iov, &xcmd_iovcnt): the producer
\* yields its next chunk (it may flag scan_done with the last one), or
\* NULL with scan_done set
cb_next_chunk ==
    /\ pc = "next_chunk"
    /\ IF produced < nchunks
       THEN /\ produced' = produced + 1
            /\ xcmd' = produced + 1
            /\ \/ scan_done' = FALSE
               \/ produced + 1 = nchunks /\ scan_done' = TRUE
            /\ pc' = "send"
            /\ UNCHANGED try_final_callback
       ELSE /\ scan_done' = TRUE
            /\ pc' = "wf_top"               \* break; __waitAndFetch(pts, true)
            /\ try_final_callback' = TRUE
            /\ UNCHANGED <<xcmd, produced>>
    /\ UNCHANGED <<final_done, cb_final_chunk, curr_resp, nchunks, max_async,
                   raised, close_by, conn_vars, os_vars, svc_vars, hist_vars>>
    /\ UNCHANGED <<scope_vars, wake_vars, lock_vars, other_vars>>

\* =====================================================================
\* consumer thread: callers of the dispatcher
\* =====================================================================
LastActive == active_cmds_list[Len(active_cmds_list)]
Remove(q, r) == SelectSeq(q, LAMBDA x : x # r)

\* xpuClientPutResponse(xcmd): dlist_delete under the mutex, then free
PutResponseKeep(active, r) == active
PutResponse(active, r) == Remove(active, r)

xpuClientPutResponse(r) ==
    /\ mutex = "free"                       \* pthreadMutexLock
    /\ active_cmds_list' = PutResponse(active_cmds_list, r)
    /\ h_freed' = Free(h_freed, {r.id})
    /\ mutex' = pthreadMutexUnlock("consumer")

\* if (resp->tag != XpuCommandTag__Success) elog(ERROR, ...)
HandshakeFailedNever(r) == FALSE
HandshakeFailed(r) == r.tag # "Success"

\* __xpuClientOpenSession after __waitAndFetchNextXpuCommand(pts, false)
\* returned a response
OpenSessionResponse ==
    /\ pc = "hs_resp"
    /\ IF HandshakeFailed(LastActive)
       THEN /\ raised' = Raise("elog", 0)
            /\ pc' = "raised"
            /\ UNCHANGED <<active_cmds_list, h_freed, mutex>>
       ELSE /\ xpuClientPutResponse(LastActive)
            /\ pc' = "idle"
            /\ UNCHANGED raised
    /\ UNCHANGED <<xcmd, try_final_callback, scan_done, final_done,
                   cb_final_chunk, curr_resp, nchunks, produced, max_async,
                   close_by, sockfd, terminated, num_running_cmds,
                   num_ready_cmds, ready_cmds_list, errorbuf, in_registry,
                   conn_freed, os_vars, svc_vars, h_attached, h_delivered,
                   h_sent_after_err, h_use_after_free>>
    /\ UNCHANGED <<scope_vars, wake_vars, h_unlocked, other_vars>>

\* pgstromExecScanAccess is entered with the rows of curr_resp used up:
\* release it and fetch the next response
pgstromExecScanAccess ==
    /\ pc \in {"idle", "eof"}
    /\ IF curr_resp # NULL
       THEN xpuClientPutResponse(curr_resp)
       ELSE UNCHANGED <<active_cmds_list, h_freed, mutex>>
    /\ pc' = "fetch"
    /\ UNCHANGED <<xcmd, try_final_callback, scan_done, final_done,
                   cb_final_chunk, curr_resp, nchunks, produced, max_async,
                   raised, close_by, sockfd, terminated, num_running_cmds,
                   num_ready_cmds, ready_cmds_list, errorbuf, in_registry,
                   conn_freed, os_vars, svc_vars, h_attached, h_delivered,
                   h_sent_after_err, h_use_after_free>>
    /\ UNCHANGED <<scope_vars, wake_vars, h_unlocked, other_vars>>

\* pts->curr_resp = __fetchNextXpuCommand(pts) returned a response
ScanAccessResponse ==
    /\ pc = "fetched"
    /\ curr_resp' = LastActive
    /\ IF LastActive.tag = "Success"
       THEN /\ pc' = "idle"
            /\ UNCHANGED raised
       ELSE /\ raised' = Raise("elog", 0)   \* "CPU fallback is not ready"
            /\ pc' = "raised"
    /\ UNCHANGED <<xcmd, try_final_callback, scan_done, final_done,
                   cb_final_chunk, nchunks, produced, max_async, close_by,
                   conn_vars, os_vars, svc_vars, hist_vars>>
    /\ UNCHANGED <<scope_vars, wake_vars, lock_vars, other_vars>>

\* =====================================================================
\* teardown
\* =====================================================================
\* pgstromExecEndTaskState / pgstromExecResetTaskState: if (pts->conn) close
pgstromExecEndTaskState ==
    /\ pc \in {"idle", "eof"}
    /\ close_by' = "end"
    /\ pc' = "cl_close"
    /\ UNCHANGED <<xcmd, try_final_callback, scan_done, final_done,
                   cb_final_chunk, curr_resp, nchunks, produced, max_async,
                   raised, conn_vars, os_vars, svc_vars, hist_vars>>
    /\ UNCHANGED <<scope_vars, wake_vars, lock_vars, other_vars>>

pgstromExecResetTaskState ==
    /\ pc \in {"idle", "eof"}
    /\ close_by' = "reset"
    /\ pc' = "cl_close"
    /\ UNCHANGED <<xcmd, try_final_callback, scan_done, final_done,
                   cb_final_chunk, curr_resp, nchunks, produced, max_async,
                   raised, conn_vars, os_vars, svc_vars, hist_vars>>
    /\ UNCHANGED <<scope_vars, wake_vars, lock_vars, other_vars>>

\* pgstromExecTaskState called again after ExecReScan (ExecScan calls
\* pgstromExecScanAccess): the loop condition tests pts->curr_resp, which
\* pgstromExecResetTaskState left as it was. With a response still in
\* pts->curr_resp, cb_next_tuple reads its rows and returns one, or finds
\* none and the response goes to xpuClientPutResponse; without one the scan
\* goes on to fetch from the session opened for the rescan
pgstromExecTaskState ==
    /\ pc = "done" /\ close_by = "reset"
    /\ IF curr_resp # NULL
       THEN pc' \in {"rs_tuple", "rs_put"}
       ELSE pc' = "rs_fetch"
    /\ UNCHANGED <<xcmd, try_final_callback, scan_done, final_done,
                   cb_final_chunk, curr_resp, nchunks, produced, max_async,
                   raised, close_by, conn_vars, os_vars, svc_vars,
                   hist_vars>>
    /\ UNCHANGED <<scope_vars, wake_vars, lock_vars, other_vars>>

\* the resource owners of the transaction: the portal's owner, under which
\* the query runs and the session was opened (conn->resowner), and another
\* owner of the same transaction; a child is released before its parent
ResourceOwners == {"subxact", "portal"}
resowner == "portal"

\* if (conn->resowner == CurrentResourceOwner)
OwnerNever(owner, current) == FALSE
OwnerAlways(owner, current) == TRUE
OwnerMatches(owner, current) == owner = current

\* xpuclientCleanupConnections, called when a resource owner is released:
\* after an error (the query was aborted) or at the end of the transaction
\* (the executor has closed the session)
xpuclientCleanupConnections ==
    /\ pc \in {"raised", "done"}
    /\ "portal" \notin released
    /\ \E CurrentResourceOwner \in ResourceOwners \ released :
          /\ released' = released \cup {CurrentResourceOwner}
          /\ IF in_registry /\ OwnerMatches(resowner, CurrentResourceOwner)
             THEN /\ close_by' = "cleanup"
                  /\ pc' = "cl_close"
             ELSE UNCHANGED <<pc, close_by>>
    /\ UNCHANGED <<xcmd, try_final_callback, scan_done, final_done,
                   cb_final_chunk, curr_resp, nchunks, produced, max_async,
                   raised, conn_vars, os_vars, svc_vars, hist_vars,
                   lock_vars, wake_vars, other_vars>>

\* xpuClientCloseSession: close(conn->sockfd)
CloseSocket ==
    /\ pc = "cl_close"
    /\ fd_open' = FALSE
    /\ pc' = "cl_setfd"
    /\ UNCHANGED <<xcmd, try_final_callback, scan_done, final_done,
                   cb_final_chunk, curr_resp, nchunks, produced, max_async,
                   raised, close_by, conn_vars, sig_pending, latch, rpc,
                   svc_vars, hist_vars>>
    /\ UNCHANGED <<scope_vars, wake_vars, lock_vars, other_vars>>

\* xpuClientCloseSession: conn->sockfd = -1; pg_memory_barrier()
ClearSockfd ==
    /\ pc = "cl_setfd"
    /\ sockfd' = -1
    /\ pc' = "cl_kill"
    /\ UNCHANGED <<xcmd, try_final_callback, scan_done, final_done,
                   cb_final_chunk, curr_resp, nchunks, produced, max_async,
                   raised, close_by, terminated, num_running_cmds,
                   num_ready_cmds, ready_cmds_list, active_cmds_list,
                   errorbuf, in_registry, conn_freed, os_vars, svc_vars,
                   hist_vars>>
    /\ UNCHANGED <<scope_vars, wake_vars, lock_vars, other_vars>>

\* pthread_kill(conn->worker, SIGPOLL): interrupts the thread when it is
\* blocked in poll(2); otherwise the handler runs and nothing changes
KillLost(thread, pending) == pending
Kill(thread, pending) == pending \/ thread = "inpoll"

pthread_kill ==
    /\ pc = "cl_kill"
    /\ sig_pending' = Kill(rpc, sig_pending)
    /\ pc' = "cl_join"
    /\ UNCHANGED <<xcmd, try_final_callback, scan_done, final_done,
                   cb_final_chunk, curr_resp, nchunks, produced, max_async,
                   raised, close_by, conn_vars, fd_open, latch, rpc,
                   svc_vars, hist_vars>>
    /\ UNCHANGED <<scope_vars, wake_vars, lock_vars, other_vars>>

\* pthread_join(conn->worker, NULL) returns once the thread has exited
JoinedAlways(thread) == TRUE
Joined(thread) == thread = "exited"

pthread_join ==
    /\ pc = "cl_join"
    /\ Joined(rpc)
    /\ pc' = "cl_free"
    /\ UNCHANGED <<xcmd, try_final_callback, scan_done, final_done,
                   cb_final_chunk, curr_resp, nchunks, produced, max_async,
                   raised, close_by, conn_vars, os_vars, svc_vars, hist_vars>>
    /\ UNCHANGED <<scope_vars, wake_vars, lock_vars, other_vars>>

\* xpuClientCloseSession: free every command of both lists, unlink and free
\* the connection
FreeQueues ==
    /\ pc = "cl_free"
    /\ h_freed' = Free(h_freed, Ids(ready_cmds_list)
                                \cup Ids(active_cmds_list))
    /\ h_unlocked' = h_unlocked
                     \cup Unlocked({"ready_cmds_list", "active_cmds_list"})
    /\ ready_cmds_list' = <<>>
    /\ active_cmds_list' = <<>>
    /\ in_registry' = FALSE
    /\ conn_freed' = TRUE
    /\ pc' = "done"
    /\ UNCHANGED <<xcmd, try_final_callback, scan_done, final_done,
                   cb_final_chunk, curr_resp, nchunks, produced, max_async,
                   raised, close_by, sockfd, terminated, num_running_cmds,
                   num_ready_cmds, errorbuf, os_vars, svc_vars, h_attached,
                   h_delivered, h_sent_after_err, h_use_after_free>>
    /\ UNCHANGED <<scope_vars, wake_vars, mutex, other_vars>>

xpuClientCloseSession ==
    \/ CloseSocket \/ ClearSockfd \/ pthread_kill \/ pthread_join
    \/ FreeQueues

Consumer ==
    \/ __xpuClientOpenSession \/ xpuClientSendCommand
    \/ xpuClientSendCommandIOV \/ WriteCommand
    \/ __waitAndFetchNextXpuCommand \/ FinalChunk \/ WaitLatch
    \/ Interrupted \/ __fetchNextXpuCommand \/ cb_next_chunk
    \/ OpenSessionResponse \/ pgstromExecScanAccess \/ ScanAccessResponse
    \/ pgstromExecEndTaskState \/ pgstromExecResetTaskState
    \/ pgstromExecTaskState
    \/ xpuclientCleanupConnections \/ xpuClientCloseSession

Next == Consumer \/ __xpuConnectSessionWorker \/ ServiceRespond \/ ServiceClose

Spec == Init /\ [][Next]_vars

\* =====================================================================
\* device-side expression evaluation (xpu_common.c)
\* =====================================================================
\* xpu_bool_t without its ops pointer
XpuBool(isnull, value) == [isnull |-> isnull, value |-> value]
\* what a result slot can hold before a handler writes to it
Slots == [isnull : BOOLEAN, value : BOOLEAN]

\* EXEC_KERN_EXPRESSION(kcxt, arg, &status) on a child: it fails, or it
\* succeeds and has filled status (a null status may carry either value)
Failed == [ok |-> FALSE, isnull |-> FALSE, value |-> FALSE]
Evaluated == [ok : {TRUE}, isnull : BOOLEAN, value : BOOLEAN]
Children == Evaluated \cup {Failed}

\* kern_expression: an opcode and its arguments
KernExpr(opcode, args) == [opcode |-> opcode, args |-> args]
ArgLists(n) == [1..n -> Children]

BoolExprOpcodes == {"BoolExpr_And", "BoolExpr_Or"}
NullTestOpcodes == {"NullTestExpr_IsNull", "NullTestExpr_IsNotNull"}
BoolTestOpcodes ==
    {"BoolTestExpr_IsTrue", "BoolTestExpr_IsNotTrue", "BoolTestExpr_IsFalse",
     "BoolTestExpr_IsNotFalse", "BoolTestExpr_IsUnknown",
     "BoolTestExpr_IsNotUnknown"}

\* the expressions builtin_xpu_functions_catalog dispatches to the handlers
KernExpressions ==
    {KernExpr(op, args) :
        op \in BoolExprOpcodes,
        args \in UNION {ArgLists(n) : n \in 1..MaxArgs}}
    \cup {KernExpr(op, args) :
            op \in {"BoolExpr_Not"} \cup NullTestOpcodes \cup BoolTestOpcodes,
            args \in ArgLists(1)}

\* what a handler leaves behind: its return value, the result slot and the
\* number of children it evaluated
\* number of children evaluated, and the error left in kcxt: none, or the
\* one of the child whose evaluation failed
Handled(ok, slot, n) ==
    [ok |-> ok, result |-> slot, nevals |-> n,
     error |-> IF ok THEN "none" ELSE "child"]

\* STROM_ELOG(kcxt, "corrupted kernel expression"); return false;
CorruptedIgnored(slot, n) == Handled(TRUE, slot, n)
Corrupted(slot, n) ==
    [ok |-> FALSE, result |-> slot, nevals |-> n,
     error |-> "corrupted kernel expression"]

\* KEXP_FIRST_ARG(NARGS, TYPE): the node has the number of children the
\* handler asks for (any number if NARGS < 0)
KEXP_FIRST_ARG(NARGS, args) == NARGS < 0 \/ Len(args) = NARGS

\* pgfn_BoolExprAnd: the loop from child i on; slot is *result on entry
BoolExprAndEager(args, i, anynull, slot) ==
    IF \E j \in 1..Len(args) : ~args[j].ok
    THEN Handled(FALSE, slot, Len(args))
    ELSE IF \E j \in 1..Len(args) : ~args[j].isnull /\ ~args[j].value
    THEN Handled(TRUE, XpuBool(slot.isnull, FALSE), Len(args))
    ELSE Handled(TRUE, XpuBool(\E j \in 1..Len(args) : args[j].isnull, TRUE),
                 Len(args))
RECURSIVE BoolExprAnd(_, _, _, _)
BoolExprAnd(args, i, anynull, slot) ==
    IF i > Len(args)
    THEN Handled(TRUE, XpuBool(anynull, TRUE), Len(args))
    ELSE LET status == args[i] IN
         IF ~status.ok THEN Handled(FALSE, slot, i)
         ELSE IF status.isnull THEN BoolExprAnd(args, i + 1, TRUE, slot)
         ELSE IF ~status.value
         THEN Handled(TRUE, XpuBool(slot.isnull, FALSE), i)  \* isnull not set
         ELSE BoolExprAnd(args, i + 1, anynull, slot)

\* pgfn_BoolExprOr: the loop from child i on
RECURSIVE BoolExprOr(_, _, _, _)
BoolExprOr(args, i, anynull, slot) ==
    IF i > Len(args)
    THEN Handled(TRUE, XpuBool(anynull, FALSE), Len(args))
    ELSE LET status == args[i] IN
         IF ~status.ok THEN Handled(FALSE, slot, i)
         ELSE IF status.isnull THEN BoolExprOr(args, i + 1, TRUE, slot)
         ELSE IF status.value
         THEN Handled(TRUE, XpuBool(slot.isnull, TRUE), i)   \* isnull not set
         ELSE BoolExprOr(args, i + 1, anynull, slot)

\* pgfn_BoolExprNot: result->value = !result->value
BoolExprNot(args, slot) ==
    LET status == args[1] IN
    IF ~KEXP_FIRST_ARG(1, args) THEN Corrupted(slot, 0)
    ELSE IF ~status.ok THEN Handled(FALSE, slot, 1)
    ELSE IF status.isnull THEN Handled(TRUE, XpuBool(TRUE, slot.value), 1)
    ELSE Handled(TRUE, XpuBool(FALSE, ~slot.value), 1)

\* the switch of pgfn_NullTestExpr
NullTestValue(opcode, status) ==
    IF opcode = "NullTestExpr_IsNull" THEN status.isnull ELSE ~status.isnull

NullTestExpr(opcode, args, slot) ==
    LET status == args[1] IN
    IF ~KEXP_FIRST_ARG(1, args) THEN Corrupted(slot, 0)
    ELSE IF ~status.ok THEN Handled(FALSE, slot, 1)
    ELSE IF opcode \in NullTestOpcodes
    THEN Handled(TRUE, XpuBool(FALSE, NullTestValue(opcode, status)), 1)
    ELSE Corrupted(XpuBool(FALSE, slot.value), 1)

\* the switch of pgfn_BoolTestExpr
BoolTestValueByValue(opcode, status) ==
    IF opcode \in {"BoolTestExpr_IsTrue", "BoolTestExpr_IsNotFalse",
                   "BoolTestExpr_IsUnknown"}
    THEN status.value ELSE ~status.value
BoolTestValue(opcode, status) ==
    CASE opcode = "BoolTestExpr_IsTrue" -> ~status.isnull /\ status.value
      [] opcode = "BoolTestExpr_IsNotTrue" -> status.isnull \/ ~status.value
      [] opcode = "BoolTestExpr_IsFalse" -> ~status.isnull /\ ~status.value
      [] opcode = "BoolTestExpr_IsNotFalse" -> status.isnull \/ status.value
      [] opcode = "BoolTestExpr_IsUnknown" -> status.isnull
      [] opcode = "BoolTestExpr_IsNotUnknown" -> ~status.isnull

BoolTestExpr(opcode, args, slot) ==
    LET status == args[1] IN
    IF ~KEXP_FIRST_ARG(1, args) THEN Corrupted(slot, 0)
    ELSE IF ~status.ok THEN Handled(FALSE, slot, 1)
    ELSE IF opcode \in BoolTestOpcodes
    THEN Handled(TRUE, XpuBool(FALSE, BoolTestValue(opcode, status)), 1)
    ELSE Corrupted(XpuBool(FALSE, slot.value), 1)

\* the handler of kexp has run and left h
Return(h) ==
    /\ retval = "pending"
    /\ result' = h.result
    /\ retval' = IF h.ok THEN "true" ELSE "false"
    /\ nevals' = h.nevals
    /\ kerror' = h.error
    /\ UNCHANGED <<kexp, client_vars, type_vars, sess_vars, scan_vars,
                   iov_vars>>

pgfn_BoolExprAnd ==
    /\ kexp.opcode = "BoolExpr_And"
    /\ handler' = "pgfn_BoolExprAnd"
    /\ Return(BoolExprAnd(kexp.args, 1, FALSE, result))

pgfn_BoolExprOr ==
    /\ kexp.opcode = "BoolExpr_Or"
    /\ handler' = "pgfn_BoolExprOr"
    /\ Return(BoolExprOr(kexp.args, 1, FALSE, result))

\* the bodies of the one-child handlers, entered for whatever node
BoolExprNotBody ==
    /\ handler' = "pgfn_BoolExprNot"
    /\ Return(BoolExprNot(kexp.args, result))

NullTestExprBody ==
    /\ handler' = "pgfn_NullTestExpr"
    /\ Return(NullTestExpr(kexp.opcode, kexp.args, result))

BoolTestExprBody ==
    /\ handler' = "pgfn_BoolTestExpr"
    /\ Return(BoolTestExpr(kexp.opcode, kexp.args, result))

pgfn_BoolExprNot ==
    /\ kexp.opcode = "BoolExpr_Not"
    /\ BoolExprNotBody

pgfn_NullTestExpr ==
    /\ kexp.opcode \in NullTestOpcodes
    /\ NullTestExprBody

pgfn_BoolTestExpr ==
    /\ kexp.opcode \in BoolTestOpcodes
    /\ BoolTestExprBody

\* an expression of the catalog is about to be evaluated into a result slot
\* whose contents are whatever the caller left there; no session is open
KernInit ==
    /\ ClientInit
    /\ nchunks = 0 /\ max_async = 1 /\ ~cb_final_chunk
    /\ kexp \in KernExpressions
    /\ result \in Slots
    /\ retval = "pending"
    /\ nevals = 0
    /\ kerror = "none" /\ handler = "none"
    /\ TypeIdle /\ SessIdle /\ ScanIdle /\ IovIdle

KernNext ==
    \/ pgfn_BoolExprAnd \/ pgfn_BoolExprOr \/ pgfn_BoolExprNot
    \/ pgfn_NullTestExpr \/ pgfn_BoolTestExpr

KernSpec == KernInit /\ [][KernNext]_vars

\* ---- corrupted kernel expressions
\* nodes as a broken build or a damaged buffer could hand them to a
\* one-child handler: any opcode, any number of children
Opcodes ==
    BoolExprOpcodes \cup {"BoolExpr_Not"} \cup NullTestOpcodes
    \cup BoolTestOpcodes \cup {"ConstExpr", "ParamExpr", "VarExpr"}
CorruptedExpressions ==
    {KernExpr(op, args) :
        op \in Opcodes, args \in UNION {ArgLists(n) : n \in 0..MaxArgs}}

CorruptedInit ==
    /\ ClientInit
    /\ nchunks = 0 /\ max_async = 1 /\ ~cb_final_chunk
    /\ kexp \in CorruptedExpressions
    /\ result \in Slots
    /\ retval = "pending"
    /\ nevals = 0
    /\ kerror = "none" /\ handler = "none"
    /\ TypeIdle /\ SessIdle /\ ScanIdle /\ IovIdle

CorruptedNext == BoolExprNotBody \/ NullTestExprBody \/ BoolTestExprBody

CorruptedSpec == CorruptedInit /\ [][CorruptedNext]_vars

\* =====================================================================
\* fixed-width type primitives (xpu_basetype.h)
\* =====================================================================
\* PGSTROM_SQLTYPE_SIMPLE_DECLARATION(NAME, BASETYPE): sizeof(BASETYPE)
TypeNames ==
    {"bool", "int1", "int2", "int4", "int8", "float2", "float4", "float8"}
SizeOf(NAME) ==
    CASE NAME \in {"bool", "int1"} -> 1
      [] NAME \in {"int2", "float2"} -> 2
      [] NAME \in {"int4", "float4"} -> 4
      [] NAME \in {"int8", "float8"} -> 8

\* the byte values memory is filled with
ByteValues == {0, 1, 255}
\* what the caller's buffer holds before datum_store: one byte more than
\* the type is wide
FreshBuffer(NAME) == [i \in 1..(SizeOf(NAME) + 1) |-> 170]

\* a little-endian word of up to four bytes read as a two's complement
\* number, and back
RECURSIVE Unsigned(_)
Unsigned(bytes) ==
    IF bytes = <<>> THEN 0 ELSE Head(bytes) + 256 * Unsigned(Tail(bytes))
RECURSIVE Pow256(_)
Pow256(n) == IF n = 0 THEN 1 ELSE 256 * Pow256(n - 1)
Word(bytes) ==
    LET n == Len(bytes)
        top == bytes[n]
    IN  Unsigned(SubSeq(bytes, 1, n - 1))
        + (IF top >= 128 THEN top - 256 ELSE top) * Pow256(n - 1)
WordBytes(w, n) == [i \in 1..n |-> (w \div Pow256(i - 1)) % 256]

\* *((const BASETYPE *)addr): the value of the bytes; an eight-byte value
\* is kept as its two four-byte halves
Load(bytes) ==
    IF Len(bytes) <= 4 THEN Word(bytes)
    ELSE <<Word(SubSeq(bytes, 1, 4)), Word(SubSeq(bytes, 5, 8))>>
\* the bytes of a BASETYPE value
Bytes(value, n) ==
    IF n <= 4 THEN WordBytes(value, n)
    ELSE WordBytes(value[1], 4) \o WordBytes(value[2], 4)

\* xpu_NAME_datum_ref: memset, then isnull or value
datum_ref(NAME, a) ==
    IF a = NullAddr
    THEN [isnull |-> TRUE, value |-> Load([j \in 1..SizeOf(NAME) |-> 0]),
          ops |-> NAME]
    ELSE [isnull |-> FALSE, value |-> Load(SubSeq(a, 1, SizeOf(NAME))),
          ops |-> NAME]

\* xpu_NAME_datum_store: what it leaves in the buffer and what it returns
Stored(buf, n) == [buffer |-> buf, nbytes |-> n]
datum_store_null_too(NAME, buf, arg) ==
    Stored([i \in 1..Len(buf) |->
               IF i <= SizeOf(NAME)
               THEN Bytes(arg.value, SizeOf(NAME))[i]
               ELSE buf[i]],
           SizeOf(NAME))
datum_store(NAME, buf, arg) ==
    IF arg.isnull THEN Stored(buf, 0)
    ELSE Stored([i \in 1..Len(buf) |->
                    IF i <= SizeOf(NAME)
                    THEN Bytes(arg.value, SizeOf(NAME))[i]
                    ELSE buf[i]],
                SizeOf(NAME))

\* xpu_NAME_datum_hash: *p_hash
datum_hash(NAME, arg) ==
    IF arg.isnull THEN [kind |-> "constant", value |-> 0]
    ELSE [kind |-> "pg_hash_any", key |-> Bytes(arg.value, SizeOf(NAME))]

xpu_datum_ref ==
    /\ datum.ops = "unset"
    /\ datum' = datum_ref(xtype, addr)
    /\ UNCHANGED <<xtype, addr, buffer, nbytes, hash, client_vars, kern_vars,
                   sess_vars, scan_vars, iov_vars>>

xpu_datum_store ==
    /\ datum.ops # "unset" /\ nbytes = -1
    /\ LET st == datum_store(xtype, buffer, datum) IN
          buffer' = st.buffer /\ nbytes' = st.nbytes
    /\ UNCHANGED <<xtype, addr, datum, hash, client_vars, kern_vars,
                   sess_vars, scan_vars, iov_vars>>

xpu_datum_hash ==
    /\ datum.ops # "unset" /\ hash.kind = "unset"
    /\ hash' = datum_hash(xtype, datum)
    /\ UNCHANGED <<xtype, addr, datum, buffer, nbytes, client_vars, kern_vars,
                   sess_vars, scan_vars, iov_vars>>

\* a primitive of some type is about to be called on an address that is
\* NULL or holds a value of the type; no session is open
TypeInit ==
    /\ ClientInit
    /\ nchunks = 0 /\ max_async = 1 /\ ~cb_final_chunk
    /\ KernIdle /\ SessIdle /\ ScanIdle /\ IovIdle
    /\ xtype \in TypeNames
    /\ addr \in {NullAddr} \cup [1..SizeOf(xtype) -> ByteValues]
    /\ datum = Unset
    /\ buffer = FreshBuffer(xtype)
    /\ nbytes = -1
    /\ hash = NoHash

TypeNext == xpu_datum_ref \/ xpu_datum_store \/ xpu_datum_hash

TypeSpec == TypeInit /\ [][TypeNext]_vars

\* =====================================================================
\* session builder (executor.c, pgstromBuildSessionInfo)
\* =====================================================================
\* Sizes and offsets are counted in cells: one cell per field of the fixed
\* part of kern_session_info, per entry of poffset[], per unit of data.
\* Of the fixed part the model keeps nparams and two of the offsets of
\* appended blobs (the others are set the same way).

\* Param nodes of the plan: PARAM_EXTERN ids are 1..numParams, they index
\* param_info->params[paramid - 1]; PARAM_EXEC ids index
\* econtext->ecxt_param_exec_vals[] from 0
ParamKinds == {"PARAM_EXEC", "PARAM_EXTERN"}
TypeClasses == {"byval", "fixed", "varlena", "unsupported"}
\* the Datum the executor holds for a parameter
ParamValue(kind, id) == (IF kind = "PARAM_EXEC" THEN 20 ELSE 10) + id
Param(kind, id, isnull, class) ==
    [paramkind |-> kind, paramid |-> id, isnull |-> isnull,
     class |-> class, value |-> ParamValue(kind, id)]
Params(numParams) ==
    {Param("PARAM_EXTERN", id, n, c) :
        id \in 1..numParams, n \in BOOLEAN, c \in TypeClasses}
    \cup {Param("PARAM_EXEC", id, n, c) :
            id \in 0..(MaxExecParams - 1), n \in BOOLEAN, c \in TypeClasses}
\* each parameter is listed once
Distinct(params) ==
    \A i, j \in 1..Len(params) :
        (/\ params[i].paramkind = params[j].paramkind
         /\ params[i].paramid = params[j].paramid) => i = j
UsedParams(numParams) ==
    {ps \in UNION {[1..n -> Params(numParams)] : n \in 0..MaxUsedParams} :
        Distinct(ps)}

\* the bytes appended for a non-null parameter: typlen bytes of the Datum,
\* typlen bytes it points to, or the VARSIZE bytes of the detoasted value
ParamData(p) ==
    CASE p.class = "byval" -> <<p.value>>
      [] p.class = "fixed" -> <<p.value, p.value>>
      [] p.class = "varlena" -> <<p.value, p.value, p.value>>

\* __appendBinaryStringInfo(buf, data, datalen): the data goes to the end
\* of the buffer; returns the offset it was put at
__appendBinaryStringInfo(buf, data) ==
    [buf |-> buf \o data, offset |-> Len(buf)]
\* __appendZeroStringInfo(buf, nbytes)
__appendZeroStringInfo(buf, n) == buf \o [i \in 1..n |-> 0]

\* kern_session_info as the builder holds it, and its cells in memory
SessionInfo(nparams) ==
    [nparams |-> 0, xpucode_scan_quals |-> 0, session_encode |-> 0,
     poffset |-> [i \in 0..(nparams - 1) |-> 0]]
SessionCells(session, nparams) ==
    <<session.nparams, session.xpucode_scan_quals, session.session_encode>>
    \o [i \in 1..nparams |-> session.poffset[i - 1]]
\* offsetof(kern_session_info, poffset[nparams])
SessionSize(nparams) == SessionFixedSz + nparams

\* the loop of __build_session_param_info from the i-th used parameter on;
\* b is what the loop has built so far
Built(buf, session, stray, error) ==
    [buf |-> buf, session |-> session, stray |-> stray, error |-> error]
RECURSIVE BuildParams(_, _, _, _)
BuildParams(params, i, nparams, b) ==
    IF i > Len(params) THEN b
    ELSE LET p == params[i] IN
         IF ~p.isnull /\ p.class = "unsupported"
         THEN Built(b.buf, b.session, b.stray, TRUE)   \* elog(ERROR, ...)
         ELSE LET a == IF p.isnull
                       THEN [buf |-> b.buf, offset |-> 0]
                       ELSE __appendBinaryStringInfo(b.buf, ParamData(p))
              IN  \* session->poffset[param->paramid] = offset
                  IF p.paramid < nparams
                  THEN BuildParams(params, i + 1, nparams,
                          Built(a.buf,
                                [b.session EXCEPT
                                    !.poffset[p.paramid] = a.offset],
                                b.stray, FALSE))
                  ELSE BuildParams(params, i + 1, nparams,
                          Built(a.buf, b.session,
                                b.stray \cup {p.paramid}, FALSE))

\* __build_session_param_info(pts, session, &buf)
__build_session_param_info(buf, session, nparams) ==
    BuildParams(used_params, 1, nparams,
                Built(buf, [session EXCEPT !.nparams = param_info.numParams],
                      {}, FALSE))

\* memcpy(buf.data, session, session_sz)
memcpy_skipped(buf, cells) == buf
memcpy(buf, cells) == cells \o SubSeq(buf, Len(cells) + 1, Len(buf))

\* the XpuCommand set up at the end of pgstromBuildSessionInfo
OpenSessionCommand(payload) ==
    [magic |-> "XpuCommandMagicNumber", tag |-> "OpenSession",
     length |-> XpuCommandHeaderSz + Len(payload), payload |-> payload]

\* what pgstromBuildSessionInfo has built when it reaches its return
SessionBuilt ==
    LET nparams == IF param_info.present THEN param_info.numParams ELSE 0
        buf0 == __appendZeroStringInfo(<<>>, SessionSize(nparams))
        b1 == IF param_info.present
              THEN __build_session_param_info(buf0, SessionInfo(nparams),
                                              nparams)
              ELSE Built(buf0, SessionInfo(nparams), {}, FALSE)
        a2 == IF kexp_scan_quals
              THEN __appendBinaryStringInfo(b1.buf, <<XpuCode>>)
              ELSE [buf |-> b1.buf, offset |-> 0]
        a3 == __appendBinaryStringInfo(a2.buf, <<EncodeInfo>>)
        session == [b1.session EXCEPT !.xpucode_scan_quals = a2.offset,
                                      !.session_encode = a3.offset]
    IN  [error |-> b1.error, stray |-> b1.stray,
         xcmd |-> OpenSessionCommand(
                     memcpy(a3.buf, SessionCells(session, nparams)))]

\* pgstromBuildSessionInfo(pts, join_inner_handle). A store to poffset[]
\* beyond the nparams entries the session was allocated with lands
\* outside the alloca'ed block: the call goes on with the table as it is,
\* or the process dies of the damaged stack.
pgstromBuildSessionInfo ==
    /\ build_status = "idle"
    /\ LET r == SessionBuilt IN
       /\ stray_writes' = r.stray
       /\ IF r.error
          THEN /\ build_status' = "error"
               /\ UNCHANGED session_xcmd
          ELSE \/ /\ build_status' = "returned"
                  /\ session_xcmd' = r.xcmd
               \/ /\ r.stray # {}
                  /\ build_status' = "crashed"
                  /\ UNCHANGED session_xcmd
    /\ UNCHANGED <<param_info, used_params, kexp_scan_quals, param_ref,
                   param_datum, client_vars, kern_vars, type_vars,
                   scan_vars, iov_vars>>

\* the cells of the session from an offset on: (char *)session + offset
SessionAddr(session, offset) == SubSeq(session, offset + 1, Len(session))
\* rettype_ops->xpu_datum_ref(kcxt, __result, addr) of a Param expression:
\* null for a NULL address, else the value at the address
ParamRef(a) ==
    IF a = NullAddr
    THEN [isnull |-> TRUE, value |-> 0, ops |-> "param"]
    ELSE [isnull |-> FALSE, value |-> a[1], ops |-> "param"]
\* the result of pgfn_ParamExpr for kexp->u.p.param_id on a session
ParamExpr(session, param_id) ==
    LET nparams == session[1]
        poffset == [id \in 0..(nparams - 1) |->
                       session[SessionFixedSz + id + 1]]
    IN  IF param_id < nparams /\ poffset[param_id] # 0
        THEN ParamRef(SessionAddr(session, poffset[param_id]))
        ELSE ParamRef(NullAddr)

\* pgfn_ParamExpr: the service evaluates a Param expression of the plan
\* against the session it received; param_id is the paramid of the Param
\* node the expression was compiled from
pgfn_ParamExpr ==
    /\ build_status = "returned"
    /\ param_ref = 0
    /\ \E i \in 1..Len(used_params) :
          /\ param_ref' = i
          /\ param_datum' = ParamExpr(session_xcmd.payload,
                                      used_params[i].paramid)
    /\ UNCHANGED <<param_info, used_params, kexp_scan_quals, session_xcmd,
                   build_status, stray_writes, client_vars, kern_vars,
                   type_vars, scan_vars, iov_vars>>

\* a plan with its parameters is about to have its session built: the
\* external parameter list may be missing (then the plan has no external
\* parameter), executor parameters exist either way; no session is open
SessInit ==
    /\ ClientInit
    /\ nchunks = 0 /\ max_async = 1 /\ ~cb_final_chunk
    /\ KernIdle /\ TypeIdle /\ ScanIdle /\ IovIdle
    /\ param_info \in {NoParamList}
          \cup [present : {TRUE}, numParams : 0..MaxParams]
    /\ used_params \in UsedParams(param_info.numParams)
    /\ kexp_scan_quals \in BOOLEAN
    /\ session_xcmd = NoCommand /\ build_status = "idle"
    /\ stray_writes = {}
    /\ param_ref = 0 /\ param_datum = Unset

SessNext == pgstromBuildSessionInfo \/ pgfn_ParamExpr

SessSpec == SessInit /\ [][SessNext]_vars

\* =====================================================================
\* result demultiplexer (executor.c, pgstromExecScanAccess)
\* =====================================================================
\* A response carries resp->u.results.chunks_nitems chunks one after the
\* other; a chunk (kern_data_store) is modelled by its nitems, a row by
\* the response, the chunk and the index it was read at.
Results(id, tag, chunks) == [id |-> id, tag |-> tag, chunks |-> chunks]
ChunkLists ==
    UNION {[1..n -> 0..MaxRows] : n \in 0..MaxKds}
ResponseLists ==
    UNION {{rs \in [1..n -> [id : 1..n, tag : {"Success", "CPUFallback"},
                             chunks : ChunkLists]] :
               \A i \in 1..n :
                  /\ rs[i].id = i
                  /\ rs[i].tag = "CPUFallback" => rs[i].chunks = <<>>} :
           n \in 0..MaxResponses}
Tuple(id, kds, index) == <<id, kds, index>>

\* pgstromFetchFallbackTuple(pts, slot): no fallback tuple is buffered
pgstromFetchFallbackTuple == FALSE

\* the for (;;) loop of pgstromScanNextTuple from the cursor (kds, chunk,
\* index): the row it returns, if any, and the cursor it leaves
Scanned(found, kds, row, chunk, index) ==
    [found |-> found, kds |-> kds, row |-> row, chunk |-> chunk,
     index |-> index]
ScanNextTupleFirstKds(chunks, kds, chunk, index) ==
    IF index < chunks[kds + 1]
    THEN Scanned(TRUE, kds, index, chunk, index + 1)
    ELSE Scanned(FALSE, kds, 0, chunk + 1, index + 1)
RECURSIVE ScanNextTuple(_, _, _, _)
ScanNextTuple(chunks, kds, chunk, index) ==
    IF index < chunks[kds + 1]              \* index = pts->curr_index++
    THEN Scanned(TRUE, kds, index, chunk, index + 1)
    ELSE IF chunk + 1 < Len(chunks)         \* ++pts->curr_chunk < nitems
    THEN ScanNextTuple(chunks, kds + 1, chunk + 1, 0)
    ELSE Scanned(FALSE, kds, 0, chunk + 1, index + 1)

\* slot = pts->cb_next_tuple(pts) in the loop test of
\* pgstromExecScanAccess, with pts->curr_resp set: a row is returned to
\* the caller (the next call starts at the loop test again), or the loop
\* body is entered
pgstromScanNextTuple ==
    /\ scan_pc = "test" /\ resp # NoResults
    /\ ~pgstromFetchFallbackTuple
    /\ LET t == ScanNextTuple(resp.chunks, curr_kds, curr_chunk, curr_index)
       IN  /\ curr_kds' = t.kds
           /\ curr_chunk' = t.chunk
           /\ curr_index' = t.index
           /\ IF t.found
              THEN /\ h_tuples' = Append(h_tuples, Tuple(resp.id, t.kds, t.row))
                   /\ scan_pc' = "test"
              ELSE /\ scan_pc' = "next_chunks"
                   /\ UNCHANGED h_tuples
    /\ UNCHANGED <<responses, nfetched, resp, h_put, client_vars, kern_vars,
                   type_vars, sess_vars, iov_vars>>

\* the body of the loop, from the label next_chunks: release the current
\* response, fetch the next one and set the cursor to its first chunk
next_chunks ==
    /\ \/ scan_pc = "next_chunks"
       \/ scan_pc = "test" /\ resp = NoResults
    /\ h_put' = IF resp # NoResults THEN Append(h_put, resp.id) ELSE h_put
    /\ IF nfetched = Len(responses)         \* __fetchNextXpuCommand: NULL
       THEN /\ resp' = NoResults
            /\ scan_pc' = "eof"
            /\ UNCHANGED <<nfetched, curr_kds, curr_chunk, curr_index>>
       ELSE /\ nfetched' = nfetched + 1
            /\ resp' = responses[nfetched + 1]
            /\ IF resp'.tag = "Success"
               THEN IF Len(resp'.chunks) = 0
                    THEN /\ scan_pc' = "next_chunks"
                         /\ UNCHANGED <<curr_kds, curr_chunk, curr_index>>
                    ELSE /\ curr_kds' = 0
                         /\ curr_chunk' = 0
                         /\ curr_index' = 0
                         /\ scan_pc' = "test"
               ELSE /\ scan_pc' = "raised"  \* "CPU fallback is not ready"
                    /\ UNCHANGED <<curr_kds, curr_chunk, curr_index>>
    /\ UNCHANGED <<responses, h_tuples, client_vars, kern_vars, type_vars,
                   sess_vars, iov_vars>>

\* a scan is about to read the responses the service will return
ScanInit ==
    /\ ClientInit
    /\ nchunks = 0 /\ max_async = 1 /\ ~cb_final_chunk
    /\ KernIdle /\ TypeIdle /\ SessIdle /\ IovIdle
    /\ responses \in ResponseLists
    /\ nfetched = 0 /\ resp = NoResults
    /\ curr_kds = 0 /\ curr_chunk = 0 /\ curr_index = 0
    /\ scan_pc = "test" /\ h_tuples = <<>> /\ h_put = <<>>

ScanNext == pgstromScanNextTuple \/ next_chunks

ScanSpec == ScanInit /\ [][ScanNext]_vars

\* =====================================================================
\* xpuClientSendCommandIOV and writev(2) (executor.c)
\* =====================================================================
\* A command is an array of segments; a byte is named by its command, its
\* segment and its place in the segment.
SegmentArrays == UNION {[1..n -> 1..MaxSegLen] : n \in 1..MaxSegs}
CommandLists == UNION {[1..n -> SegmentArrays] : n \in 1..MaxCmds}
Byte(c, seg, b) == <<c, seg, b>>
\* struct iovec, with the segment its iov_base points into
Iovec(seg, base, len) == [seg |-> seg, iov_base |-> base, iov_len |-> len]
IovOf(segs) == [i \in 1..Len(segs) |-> Iovec(i, 0, segs[i])]
\* the bytes iov[0..iovcnt-1] of command c describes
RECURSIVE Gather(_, _)
Gather(c, v) ==
    IF v = <<>> THEN <<>>
    ELSE [b \in 1..Head(v).iov_len |->
             Byte(c, Head(v).seg, Head(v).iov_base + b - 1)]
         \o Gather(c, Tail(v))
\* what writev(sockfd, iov, iovcnt) puts on the socket when it returns n
writev(c, v, n) == SubSeq(Gather(c, v), 1, n)

\* the do { } while (iovcnt > 0 && nbytes > 0) loop after writev returned
\* nbytes > 0: the iov[] that is left
RECURSIVE AdvanceStrict(_, _)
AdvanceStrict(v, n) ==
    IF Head(v).iov_len < n
    THEN IF Tail(v) # <<>> /\ n - Head(v).iov_len > 0
         THEN AdvanceStrict(Tail(v), n - Head(v).iov_len)
         ELSE Tail(v)
    ELSE <<Iovec(Head(v).seg, Head(v).iov_base + n, Head(v).iov_len - n)>>
         \o Tail(v)
RECURSIVE Advance(_, _)
Advance(v, n) ==
    IF Head(v).iov_len <= n
    THEN IF Tail(v) # <<>> /\ n - Head(v).iov_len > 0
         THEN Advance(Tail(v), n - Head(v).iov_len)
         ELSE Tail(v)
    ELSE <<Iovec(Head(v).seg, Head(v).iov_base + n, Head(v).iov_len - n)>>
         \o Tail(v)

\* xpuClientSendCommandIOV is called for the next command: the counter is
\* incremented under the mutex
SendCommandIOVCount ==
    /\ iov_pc = "call" /\ sending < Len(cmds)
    /\ sending' = sending + 1
    /\ iov' = IovOf(cmds[sending + 1])
    /\ counted' = CountCommand(counted)
    /\ iov_pc' = "loop"
    /\ UNCHANGED <<cmds, wire, client_vars, kern_vars, type_vars, sess_vars,
                   scan_vars>>

\* one iteration of while (iovcnt > 0): writev(2) writes some of the bytes
\* left (a return of 0 raises an error), the loop drops the segments that
\* were written whole and moves the base of the one written in part; the
\* function returns when no segment is left
SendCommandIOVWritev ==
    /\ iov_pc = "loop"
    /\ IF Gather(sending, iov) = <<>>
       THEN /\ iov_pc' = "raised"           \* "unable to send xPU command"
            /\ UNCHANGED <<iov, wire>>
       ELSE \E written \in 1..Len(Gather(sending, iov)) :
               /\ wire' = wire \o writev(sending, iov, written)
               /\ iov' = Advance(iov, written)
               /\ iov_pc' = IF iov' = <<>> THEN "call" ELSE "loop"
    /\ UNCHANGED <<cmds, sending, counted, client_vars, kern_vars, type_vars,
                   sess_vars, scan_vars>>

\* the consumer is about to send its commands, one after the other
IovInit ==
    /\ ClientInit
    /\ nchunks = 0 /\ max_async = 1 /\ ~cb_final_chunk
    /\ KernIdle /\ TypeIdle /\ SessIdle /\ ScanIdle
    /\ cmds \in CommandLists
    /\ sending = 0 /\ iov = <<>> /\ wire = <<>>
    /\ counted = 0 /\ iov_pc = "call"

IovNext == SendCommandIOVCount \/ SendCommandIOVWritev

IovSpec == IovInit /\ [][IovNext]_vars

\* =====================================================================
\* properties
\* =====================================================================
ConnOpen == rpc # "none" /\ ~conn_freed
IsPrefix(p, q) == Len(p) <= Len(q) /\ \A i \in 1..Len(p) : p[i] = q[i]

\* C1: on an open connection num_running_cmds + num_ready_cmds never
\* exceeds pg_strom.max_async_tasks, whatever the interleaving of the
\* consumer's sends (handshake, chunks, finalization) with the receiver's
\* attaches.
C1_AdmissionInvariant ==
    ConnOpen => num_running_cmds + num_ready_cmds <= max_async

\* the ceiling is reached with both a running and a ready command
C1_Witness ==
    /\ ConnOpen /\ max_async = 2
    /\ num_running_cmds = 1 /\ num_ready_cmds = 1
    /\ produced >= 2

\* C2: the dispatcher returns responses in the order in which the receiver
\* appended them to the ready queue.
C2_FifoDelivery == IsPrefix(h_delivered, h_attached)

\* three responses delivered, the last two received out of send order
C2_Witness ==
    /\ Len(h_delivered) >= 3
    /\ h_delivered[2].id > h_delivered[3].id

\* C3: once errorbuf holds an error, no step on the open connection changes
\* any field of it.
C3_StickyErrorWriteOnce ==
    [][(ConnOpen /\ errorbuf.errcode # ERRCODE_STROM_SUCCESS)
          => errorbuf' = errorbuf]_vars

\* a second Error response was received (and freed) after the recorded one
C3_Witness ==
    /\ errorbuf.errcode # ERRCODE_STROM_SUCCESS
    /\ \E id \in CmdIds \ (Ids(h_attached) \cup {errorbuf.lineno}) :
          h_freed[id] = 1

\* C4: while a sticky error is recorded no fetch delivers a response or
\* returns NULL, and every pass of a fetch routine through its error check
\* raises an error with the recorded errcode, also with responses still in
\* the ready queue.  (A cancel request found by CHECK_FOR_INTERRUPTS is not
\* an outcome of the error check and is left aside.)
C4_FetchRaisesStickyError ==
    [][(ConnOpen /\ errorbuf.errcode # ERRCODE_STROM_SUCCESS) =>
          /\ h_delivered' = h_delivered
          /\ (pc' = "eof" => pc = "eof")
          /\ ((pc = "wf_top" \/ (pc = "fetch" /\ ~scan_done))
                /\ pc' # pc /\ raised'.kind # "interrupt")
                => /\ pc' = "raised"
                   /\ raised' = Raise("device", errorbuf.errcode)]_vars

\* the recorded error was raised while a response was still undelivered
C4_Witness ==
    /\ pc = "raised" /\ raised = Raise("device", errorbuf.errcode)
    /\ errorbuf.errcode = ErrCodeOf(2)
    /\ ready_cmds_list # <<>>
    /\ scan_done


\* C5 as stated: no command is written once a sticky error is recorded.
C5_NoSendAfterError == h_sent_after_err = 0

\* C5 as amended: while a sticky error is recorded no dispatch attempt is
\* admitted (neither the next chunk nor the finalization task is requested);
\* only a chunk admitted before the error was recorded can still be written,
\* so at most one command is written after the error.
C5_AtMostOneSendAfterError ==
    [][/\ h_sent_after_err' <= 1
       /\ h_sent_after_err' # h_sent_after_err
             => pc = "write" /\ xcmd \in ChunkIds
       /\ (ConnOpen /\ errorbuf.errcode # ERRCODE_STROM_SUCCESS)
             => /\ pc' = "next_chunk" => pc = "next_chunk"
                /\ pc' = "wf_final" => pc = "wf_final"]_vars

\* a chunk was written after the error was recorded, and the next pass
\* through the error check raised
C5_Witness ==
    /\ h_sent_after_err = 1
    /\ pc = "raised" /\ raised = Raise("device", errorbuf.errcode)

ChunksOf(q) == SelectSeq(q, LAMBDA r : r.id \in ChunkIds)
\* the command got its response (an Error response is freed on receipt)
Completed(id) == id \in Ids(h_attached) \/ h_freed[id] > 0

\* a fetch that returned NULL has delivered every chunk's Success response
\* exactly once, in receipt order; under a ceiling of 2 the third chunk is
\* requested only after one of the first two has completed
DeliveredAll ==
    /\ pc = "eof" =>
          /\ scan_done /\ produced = nchunks
          /\ Len(ChunksOf(h_delivered)) = nchunks
          /\ Ids(ChunksOf(h_delivered)) = 1..nchunks
          /\ \A i \in 1..Len(h_delivered) : h_delivered[i].tag = "Success"
          /\ h_delivered = h_attached
    /\ (max_async = 2 /\ produced >= 3) => Completed(1) \/ Completed(2)

\* The scheduler runs both threads whenever they can take a step, and the
\* service answers every command it has received.
ConsumerProgress ==
    \/ __xpuClientOpenSession \/ xpuClientSendCommand
    \/ xpuClientSendCommandIOV \/ WriteCommand
    \/ __waitAndFetchNextXpuCommand \/ FinalChunk \/ WaitLatch
    \/ __fetchNextXpuCommand \/ cb_next_chunk
    \/ OpenSessionResponse \/ pgstromExecScanAccess \/ ScanAccessResponse

LiveSpec ==
    /\ Spec
    /\ WF_vars(ReceiverProgress)
    /\ WF_vars(ServiceRespond)
    /\ WF_vars(ConsumerProgress)

\* the run left the happy path: an error or a cancel was raised, the peer
\* hung up, the receiver thread ended, or the executor closed the session
Derailed ==
    raised # NotRaised \/ peer_closed \/ terminated # 0 \/ close_by # "none"

\* C6: if the producer yields N chunks and every task is answered with
\* Success, repeated fetch calls deliver the N responses exactly once, in
\* receipt order, and then return NULL; with a ceiling of 2 the third chunk
\* is requested only after one of the first two has completed.
C6_CompleteDelivery ==
    /\ []DeliveredAll
    /\ <>(pc = "eof" \/ Derailed)

\* three chunks under a ceiling of 2, completed out of send order, then NULL
C6_Witness ==
    /\ pc = "eof" /\ nchunks = 3 /\ max_async = 2
    /\ Len(h_delivered) >= 3
    /\ h_delivered[2].id = 2 /\ h_delivered[3].id = 1

\* C7: the socket is closed before the thread is signalled and joined, the
\* queues and the connection are freed only after the join, and the receiver
\* thread never touches the connection after it was freed.
C7_TeardownOrdering ==
    /\ ~h_use_after_free
    /\ pc \in {"cl_kill", "cl_join", "cl_free"} => ~fd_open /\ sockfd < 0
    /\ (pc = "cl_free" \/ conn_freed) => rpc = "exited"
    /\ ~conn_freed /\ pc # "cl_free" =>
          \A id \in Ids(h_attached) \ Ids(h_delivered) : h_freed[id] = 0

\* a torn-down connection whose ready queue held an undelivered response
C7_Witness ==
    /\ conn_freed /\ rpc = "exited"
    /\ \E id \in Ids(h_attached) \ Ids(h_delivered) : h_freed[id] = 1

\* The scheduler runs the receiver thread and the closing consumer whenever
\* they can take a step; SIGPOLL has a handler, so that it interrupts poll(2).
FairSpec ==
    /\ Spec
    /\ WF_vars(ReceiverProgress)
    /\ WF_vars(xpuClientCloseSession)

InHandshake ==
    \/ pc \in {"hs_send", "hs_resp"}
    \/ pc = "write" /\ xcmd = SessionId
    \/ pc \in {"wf_top", "wf_wait"} /\ ~try_final_callback

\* C9: during the handshake only the OpenSession command is in flight; no
\* chunk is requested or sent before its response has been consumed; and a
\* successful handshake has read exactly one response and leaves running = 0,
\* ready = 0 and an empty active queue.
C9_HandshakeBeforeWork ==
    /\ InHandshake =>
          /\ produced = 0 /\ xcmd = SessionId
          /\ svc_pending \subseteq {SessionId}
          /\ Ids(sock) \subseteq {SessionId}
          /\ num_running_cmds <= 1
    /\ (produced > 0 \/ xcmd # SessionId) =>
          /\ h_delivered # <<>>
          /\ h_delivered[1] = XpuResp(SessionId, "Success", 0)
          /\ h_freed[SessionId] = 1
    /\ (pc = "idle" /\ curr_resp = NULL) =>
          /\ h_attached = <<XpuResp(SessionId, "Success", 0)>>
          /\ h_delivered = h_attached
          /\ num_running_cmds = 0 /\ num_ready_cmds = 0
          /\ ready_cmds_list = <<>> /\ active_cmds_list = <<>>

\* the handshake has just succeeded
C9_Witness ==
    /\ pc = "idle" /\ curr_resp = NULL
    /\ h_freed[SessionId] = 1 /\ num_running_cmds = 0

\* the response to OpenSession was an Error or a CPUFallback response
HandshakeRefused ==
    \/ errorbuf.errcode # ERRCODE_STROM_SUCCESS /\ errorbuf.lineno = SessionId
    \/ h_attached # <<>> /\ h_attached[1].tag # "Success"

\* C10: after a refused handshake the open operation raises as soon as it
\* sees the response, nothing is dispatched, and the unwinding closes and
\* frees the connection.
C10_FailedHandshakeCloses ==
    [][HandshakeRefused' =>
          /\ produced' = 0 /\ xcmd' = SessionId /\ ~try_final_callback'
          /\ pc' \in {"wf_top", "wf_wait", "hs_resp", "raised", "cl_close",
                      "cl_setfd", "cl_kill", "cl_join", "cl_free", "done"}
          /\ (HandshakeRefused /\ pc = "wf_top" /\ pc' # pc)
                => pc' \in {"raised", "hs_resp"}
          /\ (HandshakeRefused /\ pc = "hs_resp" /\ pc' # pc)
                => pc' = "raised"
          /\ pc' = "done" => conn_freed' /\ ~in_registry' /\ rpc' = "exited"
                             /\ ~fd_open'
          /\ resowner \in released' => pc' # "raised"]_vars

\* a CPUFallback answer to OpenSession, raised and cleaned up
C10_Witness ==
    /\ h_attached # <<>> /\ h_attached[1].tag = "CPUFallback"
    /\ pc = "done" /\ conn_freed /\ close_by = "cleanup"

\* C11 as stated: a fetched CPUFallback response raises no error (its rows
\* are re-evaluated host-side and the stream continues).
C11_CpuFallbackContinues ==
    curr_resp.tag = "CPUFallback" => raised = NotRaised

\* C12 as stated: a failure of poll(2) or of the receive in the receiver
\* thread that leaves a sent command unanswered leads to an error raised to
\* the consumer (or the executor closes the session first).
C12_ReceiverFailureSurfaced ==
    (terminated = -1 /\ close_by = "none" /\ num_running_cmds > 0)
        ~> (raised # NotRaised \/ close_by # "none")

\* the admission condition in the spec's words, over the ready queue itself
Admitted ==
    /\ num_running_cmds + Len(ready_cmds_list) < max_async
    /\ (ready_cmds_list = <<>> \/ num_running_cmds < max_async \div 2)

\* an iteration of the scan loop that ran its decision (no cancel request)
ScanIteration ==
    /\ ConnOpen /\ pc = "fetch" /\ ~scan_done
    /\ errorbuf.errcode = ERRCODE_STROM_SUCCESS
    /\ pc' # pc /\ raised' = raised

FinalDelivered == FinalId \in Ids(h_delivered)

\* C15: the finalization task is requested only in the terminal drain
\* (scan_done, nothing running, ready queue empty) and only while final_done
\* is unset, which the request sets for good: it is injected at most once.
\* Once its response has been delivered, a fetch requests and sends nothing,
\* delivers nothing and returns NULL.
C15_FinalizationOnce ==
    [][/\ (pc' = "wf_final" /\ pc # "wf_final") =>
             /\ try_final_callback /\ scan_done /\ ~final_done
             /\ num_running_cmds = 0 /\ num_ready_cmds = 0
             /\ ready_cmds_list = <<>>
       /\ (xcmd' = FinalId /\ xcmd # FinalId) =>
             /\ pc = "wf_final" /\ pc' = "send"
             /\ scan_done /\ ~final_done /\ final_done'
             /\ num_running_cmds = 0 /\ ready_cmds_list = <<>>
             /\ FinalId \notin svc_pending \cup Ids(sock) \cup Ids(h_attached)
             /\ h_freed[FinalId] = 0
       /\ final_done => final_done'
       /\ (pc = "write" /\ xcmd = FinalId) => ~FinalDelivered
       /\ FinalDelivered =>
             /\ pc' \notin {"next_chunk", "wf_final", "send", "write"}
             /\ h_delivered' = h_delivered
             /\ (pc = "wf_top" /\ pc' # pc) => pc' = "eof"
      ]_vars

\* a fetch after the finalization response was consumed has returned NULL
C15_Witness ==
    /\ pc = "eof" /\ FinalDelivered /\ h_freed[FinalId] = 1
    /\ nchunks >= 1

\* nothing is in flight: every command written has been answered, and every
\* answer has been taken off the socket
NothingInFlight == svc_pending = {} /\ sock = <<>>

\* C16: a fetch returns NULL only with scan_done set, no sticky error
\* recorded, no running command and both queues empty: no sent task is
\* unanswered and no received response is undelivered.
C16_NullOnlyWhenDrained ==
    [][(pc' = "eof") =>
          /\ scan_done' /\ try_final_callback'
          /\ errorbuf'.errcode = ERRCODE_STROM_SUCCESS
          /\ num_running_cmds' = 0 /\ num_ready_cmds' = 0
          /\ ready_cmds_list' = <<>> /\ active_cmds_list' = <<>>
          /\ NothingInFlight'
          /\ h_delivered' = h_attached'
          /\ curr_resp' = NULL
          /\ pc # "eof" =>
                /\ pc \in {"wf_top", "wf_final"}
                /\ errorbuf.errcode = ERRCODE_STROM_SUCCESS
                /\ num_running_cmds = 0 /\ ready_cmds_list = <<>>
      ]_vars

\* NULL was returned after two chunks were answered, delivered and released
C16_Witness ==
    /\ pc = "eof" /\ produced = 2 /\ ~cb_final_chunk
    /\ h_freed[1] = 1 /\ h_freed[2] = 1

\* xpuClientCloseSession is entered
CloseBegins == pc' = "cl_close" /\ pc # "cl_close"

\* C13: the connection is destroyed exactly once, by ExecEnd / ExecReset or
\* by the release callback of its owning resource owner, whichever comes
\* first: a close begins only on a registered connection that nobody closed,
\* it ends with the connection unregistered and freed, and the callback
\* closes the connection only when the owner being released is its owner
\* and leaves a connection that was closed explicitly alone.
C13_DestroyedOnce ==
    [][/\ CloseBegins =>
             /\ in_registry /\ ~conn_freed /\ close_by = "none"
             /\ close_by' \in {"end", "reset", "cleanup"}
       /\ close_by # "none" => close_by' = close_by
       /\ (close_by' = "cleanup" /\ close_by = "none") =>
             /\ CloseBegins
             /\ released' \ released = {resowner}
       /\ (conn_freed' /\ ~conn_freed) => pc = "cl_free" /\ in_registry
       /\ conn_freed =>
             /\ conn_freed' /\ ~in_registry'
             /\ pc' \notin {"cl_close", "cl_setfd", "cl_kill", "cl_join",
                            "cl_free"}
       /\ (pc' = "done" /\ close_by' \in {"end", "reset"}) =>
             conn_freed' /\ ~in_registry'
       /\ (resowner \in released' /\ rpc' # "none") => close_by' # "none"
      ]_vars

\* the executor closed the session, then both resource owners were released
C13_Witness ==
    /\ pc = "done" /\ close_by = "end" /\ conn_freed /\ ~in_registry
    /\ released = ResourceOwners

\* ---------------------------------------------------------- expressions
\* the handler of kexp returned true (no evaluation error)
Returned(opcodes) == kexp.opcode \in opcodes /\ retval = "true"
\* some child evaluates to a non-null b
SomeChild(b) ==
    \E i \in 1..Len(kexp.args) :
        kexp.args[i].ok /\ ~kexp.args[i].isnull /\ kexp.args[i].value = b
SomeNullChild ==
    \E i \in 1..Len(kexp.args) : kexp.args[i].ok /\ kexp.args[i].isnull
Child == kexp.args[1]

\* C17 as stated: AND yields non-null false when a child is a non-null
\* false, otherwise null when a child is null, otherwise non-null true.
C17_BoolExprAnd ==
    Returned({"BoolExpr_And"}) =>
        IF SomeChild(FALSE) THEN result = XpuBool(FALSE, FALSE)
        ELSE IF SomeNullChild THEN result.isnull
        ELSE result = XpuBool(FALSE, TRUE)

\* C18 as stated: OR yields non-null true when a child is a non-null true,
\* otherwise null when a child is null, otherwise non-null false.
C18_BoolExprOr ==
    Returned({"BoolExpr_Or"}) =>
        IF SomeChild(TRUE) THEN result = XpuBool(FALSE, TRUE)
        ELSE IF SomeNullChild THEN result.isnull
        ELSE result = XpuBool(FALSE, FALSE)

\* C19 as stated: NOT of a null child is null; NOT of a non-null child is
\* non-null and holds the negation of the child's value.
C19_BoolExprNot ==
    Returned({"BoolExpr_Not"}) =>
        IF Child.isnull THEN result.isnull
        ELSE result = XpuBool(FALSE, ~Child.value)

\* the truth table of NullTest and BooleanTest
TestOf(opcode, isnull, value) ==
    CASE opcode = "NullTestExpr_IsNull" -> isnull
      [] opcode = "NullTestExpr_IsNotNull" -> ~isnull
      [] opcode = "BoolTestExpr_IsTrue" -> ~isnull /\ value
      [] opcode = "BoolTestExpr_IsNotTrue" -> isnull \/ ~value
      [] opcode = "BoolTestExpr_IsFalse" -> ~isnull /\ ~value
      [] opcode = "BoolTestExpr_IsNotFalse" -> isnull \/ value
      [] opcode = "BoolTestExpr_IsUnknown" -> isnull
      [] opcode = "BoolTestExpr_IsNotUnknown" -> ~isnull

\* C20: NullTest and BooleanTest evaluate exactly one child; when it
\* evaluates they return a non-null boolean holding the test's truth-table
\* value, whatever the result slot held before; when it fails they fail.
C20_NullAndBoolTests ==
    (kexp.opcode \in NullTestOpcodes \cup BoolTestOpcodes
        /\ retval # "pending") =>
        /\ nevals = 1
        /\ retval = "true" <=> Child.ok
        /\ retval = "true" =>
              result = XpuBool(FALSE, TestOf(kexp.opcode, Child.isnull,
                                             Child.value))

\* IsNotTrue of a null child whose value field holds true
C20_Witness ==
    /\ Returned({"BoolTestExpr_IsNotTrue"})
    /\ Child.isnull /\ Child.value
    /\ result = XpuBool(FALSE, TRUE) /\ nevals = 1

\* ---------------------------------------------------------------------
\* C23: a step that attaches a received response takes exactly one from the
\* running count and sets the consumer's latch; an Error response is merged
\* into the sticky error (the first one wins) and freed, it enters no queue
\* and the ready count stays; a Success or CPUFallback response becomes the
\* last element of the ready queue and the ready count grows by one.
\* ---------------------------------------------------------------------
AttachStep == rpc = "recv" /\ rpc' = "top"
C23_AttachCommand ==
    [][AttachStep =>
         LET r == Head(sock) IN
         /\ num_running_cmds' = num_running_cmds - 1
         /\ latch'
         /\ r.tag = "Error" =>
               /\ ready_cmds_list' = ready_cmds_list
               /\ num_ready_cmds' = num_ready_cmds
               /\ r.id \notin Ids(ready_cmds_list') \cup Ids(active_cmds_list')
               /\ h_freed'[r.id] = h_freed[r.id] + 1
               /\ errorbuf' = IF errorbuf.errcode = ERRCODE_STROM_SUCCESS
                              THEN ErrorBuf(r.errcode, r.id) ELSE errorbuf
         /\ r.tag \in {"Success", "CPUFallback"} =>
               /\ ready_cmds_list' = ready_cmds_list \o <<r>>
               /\ num_ready_cmds' = num_ready_cmds + 1
               /\ h_freed' = h_freed
               /\ errorbuf' = errorbuf]_vars
\* an Error response was merged while another one waits in the ready queue
C23_Witness ==
    /\ errorbuf.errcode # ERRCODE_STROM_SUCCESS
    /\ Len(ready_cmds_list) >= 1
    /\ \E i \in CmdIds : h_freed[i] = 1 /\ i = errorbuf.lineno

\* ---------------------------------------------------------------------
\* C24: conn->terminated is 0 for as long as the receiver thread runs; it
\* changes only in the step in which the thread exits, in that step it
\* becomes non-zero and the consumer's latch is set, and it never changes
\* again. An event other than POLLIN makes it positive; a failure of
\* poll(2) other than EINTR and a failed receive make it negative.
\* ---------------------------------------------------------------------
C24_Terminated ==
    /\ [](ReceiverRuns => terminated = 0)
    /\ [][/\ terminated' # terminated =>
                ReceiverRuns /\ rpc' = "exited" /\ terminated = 0
          /\ (ReceiverRuns /\ rpc' = "exited") => terminated' # 0 /\ latch'
          /\ rpc = "exited" => rpc' = "exited" /\ terminated' = terminated
          /\ (PollHangup \/ PollInvalidated) => terminated' > 0
          /\ PollFailed => terminated' < 0
          /\ (rpc = "recv" /\ rpc' = "exited") => terminated' < 0]_vars
\* the thread left on the peer's close while the consumer still holds the
\* descriptor and waits for responses
C24_Witness ==
    /\ rpc = "exited" /\ terminated > 0
    /\ peer_closed /\ fd_open /\ num_running_cmds > 0 /\ latch

\* ---------------------------------------------------------------------
\* C27: every Success or CPUFallback response that was received is in
\* exactly one place: the ready queue, the active queue, or freed. It goes
\* from the ready queue to the active queue only as the head popped for
\* delivery, it leaves the active queue only through xpuClientPutResponse
\* or the teardown, both of which free it, and it is never freed twice;
\* after the teardown all of them are freed.
\* ---------------------------------------------------------------------
Received == {h_attached[i] : i \in 1..Len(h_attached)}
InQueue(q, r) == \E i \in 1..Len(q) : q[i] = r
Places(r) ==
    (IF InQueue(ready_cmds_list, r) THEN 1 ELSE 0)
    + (IF InQueue(active_cmds_list, r) THEN 1 ELSE 0)
    + h_freed[r.id]
Teardown == pc = "cl_free" /\ pc' = "done"
PutStep == pc \in {"hs_resp", "idle", "eof"}
C25_AllUnderMutex == h_unlocked = {}

\* C25, amended: while the receiver thread runs, the counters and the two
\* queues are never touched outside conn->mutex, and errorbuf is written
\* and tested only under it. The one access outside the mutex is the
\* consumer reading errorbuf for its error report, after it found the error
\* set under the mutex: the error it reports is the recorded one, which no
\* longer changes.
C25_UnlockedOnlyStickyError ==
    /\ [](h_unlocked \subseteq {"errorbuf"})
    /\ []("errorbuf" \in h_unlocked =>
            /\ errorbuf.errcode # ERRCODE_STROM_SUCCESS
            /\ raised = Raise("device", errorbuf.errcode))
    /\ [][errorbuf.errcode # ERRCODE_STROM_SUCCESS =>
            errorbuf' = errorbuf]_vars
\* the error report read errorbuf while the receiver thread was in its loop
C25_Witness == "errorbuf" \in h_unlocked /\ ReceiverRuns

\* ---------------------------------------------------------------------
\* C26: the consumer does not hold conn->mutex while it writes to the
\* socket, waits for the latch, sleeps, runs a producer callback, checks
\* for interrupts, or has left a fetch routine by return or by error.
\* ---------------------------------------------------------------------
OutsideFetchRegion ==
    pc \in {"write", "wf_wait", "latch_wait", "usleep", "next_chunk",
            "wf_final", "fetch", "fetched", "hs_resp", "eof", "raised"}
C26_NoLockAcrossBlocking ==
    /\ [](OutsideFetchRegion => mutex # "consumer")
    /\ [][(pc \in {"wf_top", "fetch"}) => mutex' # "consumer"]_vars
\* the consumer waits for its latch and the receiver thread is about to
\* attach a response, for which it takes the mutex
C26_Witness ==
    /\ pc \in {"wf_wait", "latch_wait"}
    /\ rpc = "recv" /\ sock # <<>> /\ mutex = "free"

\* ---------------------------------------------------------------------
\* C28: pgfn_BoolExprAnd and pgfn_BoolExprOr evaluate their children from
\* the left and stop at the first child that fails or determines the
\* result (a non-null false for AND, a non-null true for OR): no child to
\* its right is evaluated. If that child failed, the handler returns false
\* (no result); if it determined the result, the handler returns true with
\* the determined value, whatever the children to its right would do.
\* ---------------------------------------------------------------------
Determines(opcode, c) ==
    c.ok /\ ~c.isnull /\ (c.value = (opcode = "BoolExpr_Or"))
Stops(opcode, c) == ~c.ok \/ Determines(opcode, c)
\* the first child at which the loop stops; all of them if there is none
LastEvaluated(e) ==
    IF \E i \in 1..Len(e.args) : Stops(e.opcode, e.args[i])
    THEN CHOOSE i \in 1..Len(e.args) :
            /\ Stops(e.opcode, e.args[i])
            /\ \A j \in 1..(i - 1) : ~Stops(e.opcode, e.args[j])
    ELSE Len(e.args)
HandlerRan(opcodes) == kexp.opcode \in opcodes /\ retval # "pending"
C28_ShortCircuit ==
    HandlerRan(BoolExprOpcodes) =>
        LET last == LastEvaluated(kexp) IN
        /\ nevals = last
        /\ ~kexp.args[last].ok => retval = "false"
        /\ Determines(kexp.opcode, kexp.args[last]) =>
              /\ retval = "true"
              /\ result.value = (kexp.opcode = "BoolExpr_Or")
\* the second of three children determined the result; the third, which
\* would have failed, was not evaluated
C28_Witness ==
    /\ Returned(BoolExprOpcodes) /\ Len(kexp.args) = 3
    /\ ~Stops(kexp.opcode, kexp.args[1])
    /\ Determines(kexp.opcode, kexp.args[2])
    /\ ~kexp.args[3].ok
    /\ nevals = 2 /\ retval = "true"

\* ---------------------------------------------------------------------
\* C29 as stated: a one-child handler entered for a node with another
\* number of children, or pgfn_NullTestExpr / pgfn_BoolTestExpr entered for
\* an opcode outside their switch, returns false with the error "corrupted
\* kernel expression".
\* ---------------------------------------------------------------------
Supported(fn) ==
    CASE fn = "pgfn_NullTestExpr" -> NullTestOpcodes
      [] fn = "pgfn_BoolTestExpr" -> BoolTestOpcodes
      [] OTHER -> Opcodes
BadArity == handler # "none" /\ Len(kexp.args) # 1
BadOpcode == handler # "none" /\ kexp.opcode \notin Supported(handler)
C29_CorruptedAlwaysReported ==
    (BadArity \/ BadOpcode) =>
        retval = "false" /\ kerror = "corrupted kernel expression"

\* C29, amended: such a node always makes the handler return false. A wrong
\* number of children is reported as "corrupted kernel expression" before
\* any child is evaluated. An unsupported opcode is reported as "corrupted
\* kernel expression" after the child was evaluated successfully; when the
\* evaluation of the child fails, the handler returns false with the
\* child's error and the opcode is never looked at.
C29_CorruptedFails ==
    /\ (BadArity \/ BadOpcode) => retval = "false"
    /\ BadArity => kerror = "corrupted kernel expression" /\ nevals = 0
    /\ (BadOpcode /\ ~BadArity) =>
          /\ nevals = 1
          /\ Child.ok => kerror = "corrupted kernel expression"
          /\ ~Child.ok => kerror = "child"
\* pgfn_BoolTestExpr was entered for a NullTest opcode whose child evaluates
C29_Witness ==
    /\ handler = "pgfn_BoolTestExpr" /\ kexp.opcode \in NullTestOpcodes
    /\ Len(kexp.args) = 1 /\ Child.ok
    /\ retval = "false" /\ kerror = "corrupted kernel expression"

\* ---------------------------------------------------------------------
\* C30: datum_ref of a NULL address yields a null datum, datum_ref of an
\* address yields a non-null datum holding the value of the bytes there;
\* datum_store of a null datum leaves the buffer as it was and returns 0;
\* datum_store of a non-null datum returns the width of the type and
\* changes exactly that many bytes, which after datum_ref(addr) are the
\* bytes at addr; datum_hash of a null datum is 0.
\* ---------------------------------------------------------------------
Referenced == datum.ops # "unset"
C30_TypePrimitives ==
    /\ Referenced =>
          /\ datum.ops = xtype
          /\ datum.isnull <=> addr = NullAddr
          /\ ~datum.isnull => datum.value = Load(addr)
    /\ (Referenced /\ nbytes # -1) =>
          IF datum.isnull
          THEN nbytes = 0 /\ buffer = FreshBuffer(xtype)
          ELSE /\ nbytes = SizeOf(xtype)
               /\ SubSeq(buffer, 1, nbytes) = addr
               /\ \A i \in (nbytes + 1)..Len(buffer) :
                     buffer[i] = FreshBuffer(xtype)[i]
    /\ (Referenced /\ hash.kind # "unset") =>
          IF datum.isnull
          THEN hash.kind = "constant" /\ hash.value = 0
          ELSE hash.kind = "pg_hash_any" /\ hash.key = addr
\* a negative int8 went through datum_ref and datum_store
C30_Witness ==
    /\ xtype = "int8" /\ addr # NullAddr /\ addr[8] = 255 /\ addr[1] = 1
    /\ Referenced /\ nbytes = 8 /\ SubSeq(buffer, 1, 8) = addr

\* ---------------------------------------------------------------------
\* the OpenSession message as the service reads it
\* ---------------------------------------------------------------------
SessionReturned == build_status = "returned"
\* session->nparams and session->poffset[id] of the message
MessageNParams == session_xcmd.payload[1]
MessageOffset(id) ==
    IF id < MessageNParams
    THEN session_xcmd.payload[SessionFixedSz + id + 1]
    ELSE 0
\* the cells of the message at an offset
MessageData(offset, n) ==
    SubSeq(session_xcmd.payload, offset + 1, offset + n)
UsedIds == {used_params[i].paramid : i \in 1..Len(used_params)}
NonNullParam(p) == ~p.isnull

\* C21: in the OpenSession message the offset recorded for a used
\* parameter is 0 if and only if its value is null, the offset of a
\* non-null parameter points at its value in the arena behind the fixed
\* part and the offset table, and the entries of parameters the plan does
\* not use are 0.
C21_ParamOffsets ==
    SessionReturned =>
        /\ \A i \in 1..Len(used_params) :
              LET p == used_params[i]
                  offset == MessageOffset(p.paramid)
              IN  /\ (offset = 0) <=> p.isnull
                  /\ NonNullParam(p) =>
                        /\ offset >= SessionSize(MessageNParams)
                        /\ MessageData(offset, Len(ParamData(p)))
                               = ParamData(p)
        /\ \A id \in 0..(MessageNParams - 1) :
              id \notin UsedIds => MessageOffset(id) = 0

\* what the builder was asked to serialize
PlanNParams == IF param_info.present THEN param_info.numParams ELSE 0
RECURSIVE ParamCells(_)
ParamCells(i) ==
    IF i > Len(used_params) THEN 0
    ELSE (IF used_params[i].isnull THEN 0
          ELSE Len(ParamData(used_params[i]))) + ParamCells(i + 1)
ArenaCells ==
    (IF param_info.present THEN ParamCells(1) ELSE 0)
    + (IF kexp_scan_quals THEN 1 ELSE 0) + 1
\* the blob an offset of the fixed part points at
BlobAt(offset) == session_xcmd.payload[offset + 1]

\* C22: the OpenSession command pgstromBuildSessionInfo returns carries
\* the magic number and the OpenSession tag, its length field is the size
\* of the header plus the whole payload (fixed part, offset table and
\* arena), and the session header has been copied into the payload: its
\* fields are the ones the builder has set, not the zeroes the buffer was
\* started with.
C22_CommandComplete ==
    SessionReturned =>
        /\ session_xcmd.magic = "XpuCommandMagicNumber"
        /\ session_xcmd.tag = "OpenSession"
        /\ Len(session_xcmd.payload) = SessionSize(PlanNParams) + ArenaCells
        /\ session_xcmd.length
               = XpuCommandHeaderSz + Len(session_xcmd.payload)
        /\ MessageNParams = PlanNParams
        /\ session_xcmd.payload[3] >= SessionSize(PlanNParams)
        /\ BlobAt(session_xcmd.payload[3]) = EncodeInfo
        /\ IF kexp_scan_quals
           THEN /\ session_xcmd.payload[2] >= SessionSize(PlanNParams)
                /\ BlobAt(session_xcmd.payload[2]) = XpuCode
           ELSE session_xcmd.payload[2] = 0
C22_Witness ==
    /\ SessionReturned
    /\ param_info.present /\ param_info.numParams = MaxParams
    /\ kexp_scan_quals
    /\ \E i \in 1..Len(used_params) :
          /\ NonNullParam(used_params[i])
          /\ used_params[i].class = "varlena"
          /\ MessageOffset(used_params[i].paramid) # 0
    /\ session_xcmd.length
           > XpuCommandHeaderSz + SessionSize(MaxParams) + 2

\* C40: every store of the builder into poffset[] has an index inside the
\* table of nparams entries the session was allocated with, for every
\* parameter kind and every valid parameter id.
C40_InsideTable == stray_writes = {}

\* C32: the Param expression of a used parameter, evaluated against the
\* session the builder made, is null if and only if the builder saw a
\* null value, and otherwise is the value the builder saw for that
\* parameter.
C32_ParamAgreement ==
    param_ref # 0 =>
        LET p == used_params[param_ref] IN
        /\ param_datum.isnull <=> p.isnull
        /\ NonNullParam(p) => param_datum.value = p.value

\* C33: while the connection exists the ready counter is the number of
\* responses linked in the ready queue.
C33_ReadyCounter ==
    ~conn_freed => num_ready_cmds = Len(ready_cmds_list)
C33_Witness ==
    /\ ~conn_freed
    /\ num_ready_cmds = 2 /\ Len(ready_cmds_list) = 2
    /\ h_delivered # <<>>

\* C34: with a service that answers each command it received at most
\* once, a response is attached only while the running counter is
\* positive, and the counter is never negative: each command is counted
\* before its first byte is written.
C34_RunningPositive ==
    /\ [](num_running_cmds >= 0)
    /\ [][AttachStep => num_running_cmds > 0]_vars
C34_Witness ==
    /\ Len(h_attached) = 2
    /\ num_running_cmds = 0
    /\ rpc = "top"

\* the dispatcher tests its branches with nothing running, nothing ready
\* and no sticky error
IdleDispatch ==
    /\ pc = "fetch"
    /\ pc' \in {"next_chunk", "fetched", "latch_wait", "usleep"}
    /\ ~scan_done /\ ~DeviceError(errorbuf)
    /\ num_running_cmds = 0 /\ ready_cmds_list = <<>>

\* C35: for every ceiling of 1 or more the dispatcher never takes its last
\* branch (sleep 20 ms and test again): with nothing running and nothing
\* ready the admission test of the send branch is true, so it asks the
\* producer for the next chunk.
C35_NeverSleeps ==
    /\ [](pc # "usleep")
    /\ [][IdleDispatch => pc' = "next_chunk"]_vars
C35_Witness ==
    /\ pc = "next_chunk"
    /\ num_running_cmds = 0 /\ ready_cmds_list = <<>>
    /\ h_delivered # <<>>
    /\ max_async = 1

\* the receiver thread has returned with commands still counted as
\* running, nothing ready and no sticky error
ReceiverGone ==
    /\ rpc = "exited"
    /\ num_running_cmds > 0 /\ ready_cmds_list = <<>>
    /\ ~DeviceError(errorbuf)
\* the consumer waits on its latch inside a fetch routine
FetchWaits == pc \in {"wf_wait", "latch_wait"}
\* the fetch routine has returned or raised
FetchEnded == pc \in {"fetched", "hs_resp", "eof", "raised"}

\* C37 as stated: a fetch call that waits after the receiver thread has
\* exited with commands still counted as running, nothing ready and no
\* sticky error eventually returns or raises (or the executor closes the
\* session first).
C37_FetchEnds ==
    (ReceiverGone /\ FetchWaits /\ close_by = "none")
        ~> (FetchEnded \/ close_by # "none")

RowsOfKds(id, kds, n) == [i \in 1..n |-> Tuple(id, kds, i - 1)]
RECURSIVE RowsFrom(_, _)
RowsFrom(r, kds) ==
    IF kds >= Len(r.chunks) THEN <<>>
    ELSE RowsOfKds(r.id, kds, r.chunks[kds + 1]) \o RowsFrom(r, kds + 1)
RECURSIVE RowsOf(_, _)
RowsOf(rs, n) ==
    IF n = 0 THEN <<>> ELSE RowsOf(rs, n - 1) \o RowsFrom(rs[n], 0)

\* C31: the rows returned are those of the fetched Success responses, in
\* the order of the responses, of their chunks and of the rows in a
\* chunk, each once; a response is released only after its last row, and
\* before the next one is fetched; a Success response without chunks is
\* released and skipped, the stream goes on with the next response.
C31_Demultiplex ==
    /\ IsPrefix(h_tuples, RowsOf(responses, nfetched))
    /\ IsPrefix(RowsOf(responses, Len(h_put)), h_tuples)
    /\ h_put = [i \in 1..Len(h_put) |-> i]
    /\ Len(h_put) = IF resp = NoResults THEN nfetched ELSE nfetched - 1
    /\ resp # NoResults => resp = responses[nfetched]
    /\ scan_pc = "test" /\ resp # NoResults => Len(resp.chunks) > 0
    /\ scan_pc = "eof" =>
          /\ nfetched = Len(responses)
          /\ h_tuples = RowsOf(responses, Len(responses))
\* the scan ended after two responses with two chunks each, one of them
\* after a response without chunks was skipped
C31_Witness ==
    /\ scan_pc = "eof"
    /\ Len(responses) = 2
    /\ Len(responses[1].chunks) = 0
    /\ Len(responses[2].chunks) = 2
    /\ responses[2].chunks[1] = 0 /\ responses[2].chunks[2] = 2
    /\ Len(h_tuples) = 2

\* the bytes of the first n commands, in order
RECURSIVE BytesOf(_)
BytesOf(n) ==
    IF n = 0 THEN <<>> ELSE BytesOf(n - 1) \o Gather(n, IovOf(cmds[n]))

\* C38: with writev(2) returning between 1 and the number of bytes left,
\* xpuClientSendCommandIOV raises no error, every call of writev writes
\* bytes not written before, and when the call returns every byte of
\* every segment is on the socket once, in segment order, behind the
\* bytes of the commands sent before; the running counter has been
\* incremented once per command.
C38_SendsEveryByte ==
    /\ [](iov_pc # "raised")
    /\ [](counted = sending)
    /\ [](wire \o Gather(sending, iov) = BytesOf(sending))
    /\ [](iov_pc = "call" => iov = <<>> /\ wire = BytesOf(sending))
    /\ [][iov_pc = "loop" => Len(wire') > Len(wire)]_vars
\* two commands of two segments were sent, with a write that ended inside
\* a segment
C38_Witness ==
    /\ iov_pc = "loop" /\ sending = 2
    /\ Len(cmds[1]) = 2 /\ Len(cmds[2]) = 2
    /\ Len(iov) = 2 /\ iov[1].iov_base = 1 /\ iov[1].iov_len = 2
    /\ Len(wire) = Len(BytesOf(1)) + 1

\* ------------------------------------------------------ rescan after close
\* a scan step taken after xpuClientCloseSession has returned
ScanStepAfterClose == conn_freed /\ pc \in {"rs_tuple", "rs_put", "rs_fetch"}

\* C36 as stated: once the connection has been closed, the task state holds
\* no reference to a response that the close freed, so that no later scan
\* step reads rows from such a response or hands it to xpuClientPutResponse.
C36_NoFreedResponse ==
    ScanStepAfterClose => curr_resp = NULL \/ h_freed[curr_resp.id] = 0

====
